---- MODULE Spec2Model ----
(***************************************************************************)
(* Recommendation engine of the nutrition service                          *)
(* (backend/app/services/recommendation_engine.py), the recommendation     *)
(* endpoints that drive it (backend/app/api/v1/endpoints/                  *)
(* recommendations.py) and the documents they store                        *)
(* (backend/app/models/recommendation.py, nutrition.py).                   *)
(*                                                                         *)
(* Conventions                                                             *)
(*  - Nutrient amounts are integers.  The code compares a float ratio      *)
(*    current/target with 0.5, 0.8 and 1.5; the model compares             *)
(*    100*current with pct*target, which is the same order on the          *)
(*    rationals.  Thresholds and model_confidence are held in percent.     *)
(*  - Text that the code searches (condition names) is a sequence of       *)
(*    one-character strings, so lower() and the `in` substring test are    *)
(*    computed, not assumed.                                               *)
(*  - An Optional string is the string or "None"; any other Optional      *)
(*    value is <<>> for None and <<v>> for v.                              *)
(***************************************************************************)
EXTENDS Integers, Sequences, FiniteSets, TLC

VARIABLES
    profiles,   \* the nutrition_profiles collection: sequence of NutritionProfile
    store,      \* the recommendations collection: sequence of Recommendation
    call,       \* per request: position and locals of the running handler
    gap,        \* direct run of the gap analyzer: inputs, locals, outcome
    food,       \* direct run of the food suggestion orchestrator
    now,        \* the clock, in days
    requests,   \* number of HTTP requests accepted so far
    probe       \* direct run of a rule pack or of the allergen screener

vars == <<profiles, store, call, gap, food, now, requests, probe>>

None == "None"
Nothing == <<>>
Some(v) == <<v>>

-----------------------------------------------------------------------------
(* Text *)

UpperCase == <<"A","B","C","D","E","F","G","H","I","J","K","L","M",
               "N","O","P","Q","R","S","T","U","V","W","X","Y","Z">>
LowerCase == <<"a","b","c","d","e","f","g","h","i","j","k","l","m",
               "n","o","p","q","r","s","t","u","v","w","x","y","z">>

\* str.lower() on one character
LowerChar(c) ==
    IF \E i \in 1..Len(UpperCase) : UpperCase[i] = c
    THEN LowerCase[CHOOSE i \in 1..Len(UpperCase) : UpperCase[i] = c]
    ELSE c

\* str.lower()
Lower(s) == [i \in 1..Len(s) |-> LowerChar(s[i])]

\* k in s  (Python substring test)
Contains(s, k) ==
    \E i \in 0..(Len(s) - Len(k)) : SubSeq(s, i + 1, i + Len(k)) = k

\* dict.get(key, default)
Get(d, k, default) == IF k \in DOMAIN d THEN d[k] ELSE default

Min2(a, b) == IF a < b THEN a ELSE b

-----------------------------------------------------------------------------
(* RecommendationPriority and nutrient_thresholds (percent of target) *)

CRITICAL == 1
HIGH == 2
MEDIUM == 3
LOW == 4

critical_threshold == 50
protein_deficit_threshold == 80
excess_threshold == 150

MacroNames == <<"calories", "protein_g", "carbs_g", "fat_g", "fiber_g">>

\* ratio = current / target if target > 0 else 0, compared with pct/100
ratio_lt(current, target, pct) ==
    IF target > 0 THEN 100 * current < pct * target ELSE 0 < pct

ratio_gt(current, target, pct) ==
    IF target > 0 THEN 100 * current > pct * target ELSE 0 > pct

-----------------------------------------------------------------------------
(* Nutrient Gap Analyzer *)

\* variant: the critical comparison written <= instead of <
SeverityInclusive(current, target) ==
    IF ~ratio_gt(current, target, critical_threshold) THEN "critical"
    ELSE IF ratio_lt(current, target, protein_deficit_threshold) THEN "high"
    ELSE IF ratio_gt(current, target, excess_threshold) THEN "excess"
    ELSE "none"

\* the classification chain of the loop body; "none" is the `continue` branch
Severity(current, target) ==
    IF ratio_lt(current, target, critical_threshold) THEN "critical"
    ELSE IF ratio_lt(current, target, protein_deficit_threshold) THEN "high"
    ELSE IF ratio_gt(current, target, excess_threshold) THEN "excess"
    ELSE "none"

\* _get_nutrient_gap_reason: the severity wording that the reason sentence carries
\* (the rest of the sentence is the nutrient name and a fixed benefit text)
GapReason(current, target) ==
    IF ratio_lt(current, target, 50) THEN "critically low"
    ELSE IF ratio_lt(current, target, 80) THEN "below target"
    ELSE "above recommended levels"

\* "critical" in adj.reason.lower()
ReasonHasCritical(reason) == reason = "critically low"

Abs(x) == IF x < 0 THEN -x ELSE x

\* NutrientAdjustment built by the loop body for one flagged nutrient
GapAdjustment(nutrient, current, target) ==
    [nutrient_name |-> nutrient,
     current_intake |-> current,
     recommended_intake |-> target,
     adjustment_amount |-> Abs(target - current),
     adjustment_direction |-> IF target - current > 0 THEN "increase" ELSE "decrease",
     unit |-> IF nutrient = "calories" THEN "kcal" ELSE "g",
     reason |-> GapReason(current, target)]

RECURSIVE GapLoop(_, _, _)
\* for nutrient, target in macros.items(): ... nutrient_adjustments.append(...)
GapLoop(i, macro_targets, current_intake) ==
    IF i > Len(MacroNames) THEN <<>>
    ELSE LET nutrient == MacroNames[i]
             target == macro_targets[nutrient]
             current == Get(current_intake, nutrient, 0)
             rest == GapLoop(i + 1, macro_targets, current_intake)
         IN IF Severity(current, target) = "none"
            THEN rest
            ELSE <<GapAdjustment(nutrient, current, target)>> \o rest

\* Recommendation(...) of the gap analyzer: the priority argument reads
\* .priority of a NutrientAdjustment, a pydantic model without that field,
\* which raises AttributeError whenever the list is non-empty.
GapPriorityRaises(nutrient_adjustments) == nutrient_adjustments # <<>>

\* _generate_nutrient_gap_recommendations: [raised, adjustments, recommendations]
GapRecommendations(user, macro_targets, current_intake) ==
    LET nutrient_adjustments == GapLoop(1, macro_targets, current_intake)
    IN [raised |-> GapPriorityRaises(nutrient_adjustments),
        nutrient_adjustments |-> nutrient_adjustments,
        recommendations |-> <<>>]

-----------------------------------------------------------------------------
(* Recommendation documents *)

\* Recommendation(...): the tracking fields take the defaults of the model class
Recommendation(user_id, type, title, adjustments, food_suggestions, meal_plan, confidence, priority, expected_impact, t) ==
    [user_id |-> user_id,
     recommendation_type |-> type,
     title |-> title,
     nutrient_adjustments |-> adjustments,
     food_suggestions |-> food_suggestions,
     meal_plan |-> meal_plan,
     model_confidence |-> confidence,
     priority |-> priority,
     expected_impact |-> expected_impact,
     is_active |-> TRUE,
     is_viewed |-> FALSE,
     is_accepted |-> FALSE,
     user_feedback |-> Nothing,
     user_rating |-> Nothing,
     created_at |-> t]

\* NutrientAdjustment(...) of a condition rule pack
PackAdjustment(nutrient, current, recommended, amount, direction, unit, reason) ==
    [nutrient_name |-> nutrient,
     current_intake |-> current,
     recommended_intake |-> recommended,
     adjustment_amount |-> amount,
     adjustment_direction |-> direction,
     unit |-> unit,
     reason |-> reason]

\* the `if adjustments:` tail shared by the five rule packs
PackRecommendation(user, title, adjustments, confidence, t) ==
    IF adjustments # <<>>
    THEN <<Recommendation(user.id, "health_optimization", title, adjustments,
                          <<>>, Nothing, confidence, HIGH, "high", t)>>
    ELSE <<>>

-----------------------------------------------------------------------------
(* Condition-specific rule packs *)

_diabetes_recommendations(user, current_intake, t) ==
    LET fiber == Get(current_intake, "fiber_g", 0)
        adjustments ==
            IF fiber < 25
            THEN <<PackAdjustment("fiber_g", fiber, 30, 30 - fiber, "increase", "g",
                     "Higher fiber intake helps regulate blood sugar levels")>>
            ELSE <<>>
    IN PackRecommendation(user, "Diabetes Management Nutrition", adjustments, 90, t)

_hypertension_recommendations(user, current_intake, t) ==
    LET sodium == Get(current_intake, "sodium_mg", 0)
        potassium == Get(current_intake, "potassium_mg", 0)
        a1 == IF sodium > 2300
              THEN <<PackAdjustment("sodium_mg", sodium, 1500, sodium - 1500,
                       "decrease", "mg",
                       "Reducing sodium intake helps lower blood pressure")>>
              ELSE <<>>
        a2 == IF potassium < 3500
              THEN <<PackAdjustment("potassium_mg", potassium, 4700,
                       4700 - potassium, "increase", "mg",
                       "Adequate potassium helps counteract sodium's effects on blood pressure")>>
              ELSE <<>>
    IN PackRecommendation(user, "Blood Pressure Management", a1 \o a2, 88, t)

_heart_health_recommendations(user, current_intake, t) ==
    LET fiber == Get(current_intake, "fiber_g", 0)
        adjustments ==
            IF fiber < 25
            THEN <<PackAdjustment("fiber_g", fiber, 30, 30 - fiber, "increase", "g",
                     "Soluble fiber helps reduce cholesterol levels")>>
            ELSE <<>>
    IN PackRecommendation(user, "Heart Health Optimization", adjustments, 85, t)

\* the anemia pack with the iron check made inclusive
AnemiaInclusive(user, current_intake, t) ==
    LET iron == Get(current_intake, "iron_mg", 0)
        vitamin_c == Get(current_intake, "vitamin_c_mg", 0)
        a1 == IF iron <= 15
              THEN <<PackAdjustment("iron_mg", iron, 18, 18 - iron, "increase", "mg",
                       "Adequate iron intake is essential for red blood cell production")>>
              ELSE <<>>
        a2 == IF vitamin_c < 75
              THEN <<PackAdjustment("vitamin_c_mg", vitamin_c, 90, 90 - vitamin_c,
                       "increase", "mg", "Vitamin C enhances iron absorption")>>
              ELSE <<>>
    IN PackRecommendation(user, "Anemia Management Nutrition", a1 \o a2, 92, t)

_anemia_recommendations(user, current_intake, t) ==
    LET iron == Get(current_intake, "iron_mg", 0)
        vitamin_c == Get(current_intake, "vitamin_c_mg", 0)
        a1 == IF iron < 15
              THEN <<PackAdjustment("iron_mg", iron, 18, 18 - iron, "increase", "mg",
                       "Adequate iron intake is essential for red blood cell production")>>
              ELSE <<>>
        a2 == IF vitamin_c < 75
              THEN <<PackAdjustment("vitamin_c_mg", vitamin_c, 90, 90 - vitamin_c,
                       "increase", "mg", "Vitamin C enhances iron absorption")>>
              ELSE <<>>
    IN PackRecommendation(user, "Anemia Management Nutrition", a1 \o a2, 92, t)

_bone_health_recommendations(user, current_intake, t) ==
    LET calcium == Get(current_intake, "calcium_mg", 0)
        vitamin_d == Get(current_intake, "vitamin_d_mcg", 0)
        a1 == IF calcium < 1000
              THEN <<PackAdjustment("calcium_mg", calcium, 1200, 1200 - calcium,
                       "increase", "mg",
                       "Adequate calcium is essential for bone strength and density")>>
              ELSE <<>>
        a2 == IF vitamin_d < 15
              THEN <<PackAdjustment("vitamin_d_mcg", vitamin_d, 20, 20 - vitamin_d,
                       "increase", "mcg",
                       "Vitamin D is crucial for calcium absorption and bone health")>>
              ELSE <<>>
    IN PackRecommendation(user, "Bone Health Support", a1 \o a2, 87, t)

\* keywords of the dispatch chain
kw_diabetes == <<"d","i","a","b","e","t","e","s">>
kw_hypertension == <<"h","y","p","e","r","t","e","n","s","i","o","n">>
kw_blood_pressure == <<"b","l","o","o","d"," ","p","r","e","s","s","u","r","e">>
kw_heart == <<"h","e","a","r","t">>
kw_cardiovascular == <<"c","a","r","d","i","o","v","a","s","c","u","l","a","r">>
kw_anemia == <<"a","n","e","m","i","a">>
kw_osteoporosis == <<"o","s","t","e","o","p","o","r","o","s","i","s">>

\* the chain with the anemia test moved before the heart test
ConditionPackAnemiaFirst(user, condition, current_intake, t) ==
    LET condition_name == Lower(condition.name)
    IN IF Contains(condition_name, kw_diabetes)
       THEN _diabetes_recommendations(user, current_intake, t)
       ELSE IF Contains(condition_name, kw_hypertension)
               \/ Contains(condition_name, kw_blood_pressure)
       THEN _hypertension_recommendations(user, current_intake, t)
       ELSE IF Contains(condition_name, kw_anemia)
       THEN _anemia_recommendations(user, current_intake, t)
       ELSE IF Contains(condition_name, kw_heart)
               \/ Contains(condition_name, kw_cardiovascular)
       THEN _heart_health_recommendations(user, current_intake, t)
       ELSE IF Contains(condition_name, kw_osteoporosis)
       THEN _bone_health_recommendations(user, current_intake, t)
       ELSE <<>>

\* the if/elif chain for one health condition
ConditionPack(user, condition, current_intake, t) ==
    LET condition_name == Lower(condition.name)
    IN IF Contains(condition_name, kw_diabetes)
       THEN _diabetes_recommendations(user, current_intake, t)
       ELSE IF Contains(condition_name, kw_hypertension)
               \/ Contains(condition_name, kw_blood_pressure)
       THEN _hypertension_recommendations(user, current_intake, t)
       ELSE IF Contains(condition_name, kw_heart)
               \/ Contains(condition_name, kw_cardiovascular)
       THEN _heart_health_recommendations(user, current_intake, t)
       ELSE IF Contains(condition_name, kw_anemia)
       THEN _anemia_recommendations(user, current_intake, t)
       ELSE IF Contains(condition_name, kw_osteoporosis)
       THEN _bone_health_recommendations(user, current_intake, t)
       ELSE <<>>

RECURSIVE HealthLoop(_, _, _, _)
\* for condition in user.health_conditions: recommendations.extend(...)
HealthLoop(i, user, current_intake, t) ==
    IF i > Len(user.health_conditions) THEN <<>>
    ELSE ConditionPack(user, user.health_conditions[i], current_intake, t)
         \o HealthLoop(i + 1, user, current_intake, t)

\* _generate_health_optimization_recommendations; nothing in its try block
\* can raise on a well-formed user and intake, so the handler is not reached
_generate_health_optimization_recommendations(user, current_intake, t) ==
    HealthLoop(1, user, current_intake, t)

-----------------------------------------------------------------------------
(* External collaborators: a reply either raises or carries a value *)

Fail == [raises |-> TRUE, value |-> <<>>]
Reply(v) == [raises |-> FALSE, value |-> v]

s_oats == [name |-> <<"O","a","t","s">>, calories |-> 300, protein_g |-> 10,
           carbs_g |-> 50, fat_g |-> 6, rationale |-> "rich in fiber"]
s_eggs == [name |-> <<"E","g","g","s">>, calories |-> 150, protein_g |-> 12,
           carbs_g |-> 1, fat_g |-> 10, rationale |-> "rich in protein"]

\* FoodSuggestion(...) from one returned suggestion
FoodSuggestion(suggestion, meal_type, benefits, allergen_warnings) ==
    [food_name |-> suggestion.name,
     calories |-> suggestion.calories,
     protein_g |-> suggestion.protein_g,
     carbs_g |-> suggestion.carbs_g,
     fat_g |-> suggestion.fat_g,
     reason |-> suggestion.rationale,
     meal_type |-> meal_type,
     nutritional_benefits |-> benefits,
     allergen_warnings |-> allergen_warnings]

\* seq[:n]
Take(seq, n) == SubSeq(seq, 1, Min2(n, Len(seq)))

-----------------------------------------------------------------------------
(* Allergen Screener *)

\* the mapping allergen group -> keywords, in the order of the dictionary
common_allergens ==
    <<[allergen_group |-> <<"m","i","l","k">>,
       keywords |-> <<<<"m","i","l","k">>,
                      <<"d","a","i","r","y">>,
                      <<"c","h","e","e","s","e">>,
                      <<"b","u","t","t","e","r">>,
                      <<"c","r","e","a","m">>>>],
      [allergen_group |-> <<"e","g","g","s">>,
       keywords |-> <<<<"e","g","g">>,
                      <<"e","g","g","s">>>>],
      [allergen_group |-> <<"f","i","s","h">>,
       keywords |-> <<<<"f","i","s","h">>,
                      <<"s","a","l","m","o","n">>,
                      <<"t","u","n","a">>,
                      <<"c","o","d">>>>],
      [allergen_group |-> <<"s","h","e","l","l","f","i","s","h">>,
       keywords |-> <<<<"s","h","r","i","m","p">>,
                      <<"c","r","a","b">>,
                      <<"l","o","b","s","t","e","r">>,
                      <<"s","h","e","l","l","f","i","s","h">>>>],
      [allergen_group |-> <<"t","r","e","e"," ","n","u","t","s">>,
       keywords |-> <<<<"a","l","m","o","n","d">>,
                      <<"w","a","l","n","u","t">>,
                      <<"p","e","c","a","n">>,
                      <<"c","a","s","h","e","w">>,
                      <<"p","i","s","t","a","c","h","i","o">>>>],
      [allergen_group |-> <<"p","e","a","n","u","t","s">>,
       keywords |-> <<<<"p","e","a","n","u","t">>,
                      <<"p","e","a","n","u","t","s">>>>],
      [allergen_group |-> <<"w","h","e","a","t">>,
       keywords |-> <<<<"w","h","e","a","t">>,
                      <<"f","l","o","u","r">>,
                      <<"b","r","e","a","d">>,
                      <<"p","a","s","t","a">>>>],
      [allergen_group |-> <<"s","o","y">>,
       keywords |-> <<<<"s","o","y">>,
                      <<"t","o","f","u">>,
                      <<"s","o","y","b","e","a","n">>,
                      <<"e","d","a","m","a","m","e">>>>]>>

\* ' '.join(parts)
RECURSIVE JoinWithSpace(_)
JoinWithSpace(parts) ==
    IF parts = <<>> THEN <<>>
    ELSE IF Len(parts) = 1 THEN parts[1]
    ELSE parts[1] \o <<" ">> \o JoinWithSpace(Tail(parts))

\* variant: the text as written, not lowered
SuggestionTextExact(suggestion) ==
    Get(suggestion, "name", <<>>) \o <<" ">>
    \o JoinWithSpace([i \in DOMAIN Get(suggestion, "ingredients", <<>>) |->
                         Get(Get(suggestion, "ingredients", <<>>)[i], "name", <<>>)])

\* suggestion.get('name', '').lower() + ' ' + ' '.join(ingredient.get('name',
\* '').lower() for ingredient in suggestion.get('ingredients', []))
SuggestionText(suggestion) ==
    Lower(Get(suggestion, "name", <<>>)) \o <<" ">>
    \o JoinWithSpace([i \in DOMAIN Get(suggestion, "ingredients", <<>>) |->
                         Lower(Get(Get(suggestion, "ingredients", <<>>)[i], "name", <<>>))])

\* any(keyword in text for keyword in keywords)
AnyKeywordIn(keywords, text) ==
    \E i \in DOMAIN keywords : Contains(text, keywords[i])

\* f"May contain {allergen_group}"
MayContain(allergen_group) ==
    <<"M","a","y"," ","c","o","n","t","a","i","n"," ">> \o allergen_group

\* the warnings the inner loop appends for one allergy, from group g on
RECURSIVE GroupLoop(_, _, _)
GroupLoop(g, allergy_lower, suggestion_text) ==
    IF g > Len(common_allergens) THEN <<>>
    ELSE LET allergen_group == common_allergens[g].allergen_group
             keywords == common_allergens[g].keywords
             hit == /\ \/ Contains(allergen_group, allergy_lower)
                       \/ AnyKeywordIn(keywords, allergy_lower)
                    /\ AnyKeywordIn(keywords, suggestion_text)
         IN (IF hit THEN <<MayContain(allergen_group)>> ELSE <<>>)
            \o GroupLoop(g + 1, allergy_lower, suggestion_text)

\* the warnings the outer loop appends, from allergy a on
RECURSIVE AllergyLoop(_, _, _)
AllergyLoop(a, user_allergies, suggestion_text) ==
    IF a > Len(user_allergies) THEN <<>>
    ELSE GroupLoop(1, Lower(user_allergies[a]), suggestion_text)
         \o AllergyLoop(a + 1, user_allergies, suggestion_text)

\* _check_allergens(suggestion, user_allergies)
_check_allergens(suggestion, user_allergies) ==
    AllergyLoop(1, user_allergies, SuggestionText(suggestion))

-----------------------------------------------------------------------------
(* Food Suggestion Orchestrator *)

\* the trigger test with 80% itself included
AtMostEightyPercent(current, target) == 10 * current <= 8 * target

\* current < target * 0.8; on whole-number intakes and targets the double
\* product and comparison agree with the exact ones
BelowEightyPercent(current, target) == 10 * current < 8 * target

\* deficit_nutrients
DeficitNutrients(macro_targets, current_intake) ==
    (IF BelowEightyPercent(Get(current_intake, "protein_g", 0), macro_targets.protein_g)
     THEN <<"protein_g">> ELSE <<>>)
    \o
    (IF BelowEightyPercent(Get(current_intake, "fiber_g", 0), macro_targets.fiber_g)
     THEN <<"fiber_g">> ELSE <<>>)

\* the bands with the snack band closed at 18 instead of open
NextMealSnackAtSix(current_hour) ==
    IF 5 <= current_hour /\ current_hour < 11 THEN "breakfast"
    ELSE IF 11 <= current_hour /\ current_hour < 15 THEN "lunch"
    ELSE IF 15 <= current_hour /\ current_hour <= 18 THEN "snack"
    ELSE "dinner"

\* _determine_next_meal() with current_hour = datetime.now().hour
_determine_next_meal(current_hour) ==
    IF 5 <= current_hour /\ current_hour < 11 THEN "breakfast"
    ELSE IF 11 <= current_hour /\ current_hour < 15 THEN "lunch"
    ELSE IF 15 <= current_hour /\ current_hour < 18 THEN "snack"
    ELSE "dinner"

Max0(x) == IF x > 0 THEN x ELSE 0

\* nutrition_targets of the request, in tenths (max(0, target - current) * 0.3)
RemainingTargets(macro_targets, current_intake) ==
    [n \in {"calories", "protein_g", "carbs_g", "fat_g"} |->
        3 * Max0(macro_targets[n] - Get(current_intake, n, 0))]

\* the `if ai_suggestions:` block: one food_suggestion Recommendation
FoodRecommendation(user, ai_suggestions, target_meal_type, deficit_nutrients, t) ==
    LET top == Take(ai_suggestions, 3)
        food_suggestions ==
            [i \in 1..Len(top) |->
                FoodSuggestion(top[i], target_meal_type, deficit_nutrients,
                               _check_allergens(top[i], user.allergies))]
    IN Recommendation(user.id, "food_suggestion", target_meal_type, <<>>,
                      food_suggestions, Nothing, 75, MEDIUM, "medium", t)

\* variant: the exception of the generator leaves the sub-generator
FoodFailurePropagates ==
    [raised |-> TRUE, recommendations |-> <<>>]

\* what the handler of the try block does with an exception of the generator
FoodOnFailure ==
    [raised |-> FALSE, recommendations |-> <<>>]

\* _generate_food_suggestions: [called, request, raised, recommendations];
\* reply and current_hour are read only when the generator is called
_generate_food_suggestions(user, macro_targets, current_intake, meal_type, current_hour, reply, t) ==
    LET deficit_nutrients == DeficitNutrients(macro_targets, current_intake)
        target_meal_type ==
            IF meal_type # None THEN meal_type ELSE _determine_next_meal(current_hour)
        request ==
            [user_profile |->
                 [age |-> user.age, gender |-> user.gender,
                  activity_level |-> user.activity_level,
                  primary_goal |-> user.primary_goal,
                  health_conditions |-> [i \in 1..Len(user.health_conditions) |->
                                             user.health_conditions[i].name]],
             nutrition_targets |-> RemainingTargets(macro_targets, current_intake),
             dietary_restrictions |-> [i \in 1..Len(user.dietary_restrictions) |->
                                           user.dietary_restrictions[i].type],
             meal_type |-> target_meal_type]
    IN IF deficit_nutrients = <<>>
       THEN [called |-> FALSE, request |-> Nothing, raised |-> FALSE,
             recommendations |-> <<>>]
       ELSE IF reply.raises
       THEN [called |-> TRUE, request |-> Some(request),
             raised |-> FoodOnFailure.raised,
             recommendations |-> FoodOnFailure.recommendations]
       ELSE [called |-> TRUE, request |-> Some(request), raised |-> FALSE,
             recommendations |->
                IF reply.value # <<>>
                THEN <<FoodRecommendation(user, reply.value, target_meal_type,
                                          deficit_nutrients, t)>>
                ELSE <<>>]

-----------------------------------------------------------------------------
(* Meal Plan Builder *)

\* NutritionProfile.meal_distribution default, in dict order, percent
DefaultMealDistribution ==
    <<[meal_type |-> "breakfast", percentage |-> 25],
      [meal_type |-> "lunch", percentage |-> 35],
      [meal_type |-> "dinner", percentage |-> 30],
      [meal_type |-> "snack", percentage |-> 10]>>

\* len(recent_logs) < 5
MealPlanTrigger == 5

\* index of the first slot whose generator call raises, 0 when none does
FirstFailure(replies, n) ==
    IF \E i \in 1..n : replies[i].raises
    THEN CHOOSE i \in 1..n : replies[i].raises /\ \A j \in 1..(i - 1) : ~replies[j].raises
    ELSE 0

\* daily_meals after the loop over meal_distribution.items(): the slots whose
\* reply is non-empty, each with ai_suggestions[:1]
DailyMeals(meal_distribution, replies) ==
    LET filled == {i \in 1..Len(meal_distribution) : replies[i].value # <<>>}
    IN [m \in {meal_distribution[i].meal_type : i \in filled} |->
          LET i == CHOOSE j \in filled : meal_distribution[j].meal_type = m
              top == Take(replies[i].value, 1)
          IN [k \in 1..Len(top) |-> FoodSuggestion(top[k], m, <<>>, <<>>)]]

\* MealPlan(...): the totals are the full-day macro targets
MealPlan(daily_meals, macro_targets) ==
    [meals |-> daily_meals,
     total_calories |-> macro_targets.calories,
     total_protein_g |-> macro_targets.protein_g,
     total_carbs_g |-> macro_targets.carbs_g,
     total_fat_g |-> macro_targets.fat_g,
     total_fiber_g |-> macro_targets.fiber_g,
     plan_type |-> "daily"]

\* _generate_meal_plan_recommendations: [calls, recommendations].
\* recent_logs is the reply of the FoodItem query: the number of logs of the
\* trailing 3 days; replies[i] is the generator's reply for slot i.  An
\* exception anywhere in the try block leaves recommendations empty.
_generate_meal_plan_recommendations(user, nutrition_profile, recent_logs, replies, t) ==
    LET meal_distribution == nutrition_profile.meal_distribution
        n == Len(meal_distribution)
        failed == FirstFailure(replies, n)
        daily_meals == DailyMeals(meal_distribution, replies)
    IN IF recent_logs.raises
       THEN [calls |-> 0, recommendations |-> <<>>]
       ELSE IF ~(recent_logs.value < MealPlanTrigger)
       THEN [calls |-> 0, recommendations |-> <<>>]
       ELSE IF failed # 0
       THEN [calls |-> failed, recommendations |-> <<>>]
       ELSE [calls |-> n,
             recommendations |->
                IF DOMAIN daily_meals # {}
                THEN <<Recommendation(user.id, "meal_plan",
                          "Personalized Daily Meal Plan", <<>>, <<>>,
                          Some(MealPlan(daily_meals, nutrition_profile.macro_targets)),
                          70, LOW, "high", t)>>
                ELSE <<>>]

-----------------------------------------------------------------------------
(* Recommendation Aggregator & Ranker *)

\* sort key (x.priority, -x.model_confidence)
KeyLe(a, b) ==
    \/ a.priority < b.priority
    \/ a.priority = b.priority /\ a.model_confidence >= b.model_confidence

KeyLt(a, b) ==
    \/ a.priority < b.priority
    \/ a.priority = b.priority /\ a.model_confidence > b.model_confidence

RECURSIVE InsertSorted(_, _)
\* x placed after every element whose key is not greater: list.sort is stable
InsertSorted(sorted, x) ==
    IF sorted = <<>> THEN <<x>>
    ELSE IF KeyLt(x, Head(sorted)) THEN <<x>> \o sorted
    ELSE <<Head(sorted)>> \o InsertSorted(Tail(sorted), x)

RECURSIVE SortFrom(_, _, _)
SortFrom(i, recommendations, sorted) ==
    IF i > Len(recommendations) THEN sorted
    ELSE SortFrom(i + 1, recommendations, InsertSorted(sorted, recommendations[i]))

\* variant: the list is returned in the order the sub-generators ran
SortSkipped(recommendations) == recommendations

\* recommendations.sort(key=lambda x: (x.priority, -x.model_confidence))
SortRecommendations(recommendations) == SortFrom(1, recommendations, <<>>)

\* recommendations[:10]
TopN == 10

\* variant: the sorted list is returned whole
RankAll(recommendations) == SortRecommendations(recommendations)

Rank(recommendations) == Take(SortRecommendations(recommendations), TopN)

-----------------------------------------------------------------------------
(* generate_comprehensive_recommendations, one await at a time *)

NumProcs == 2
Procs == 1..NumProcs

IdleCall ==
    [pc |-> "idle", kind |-> "none", user |-> Nothing, current_intake_arg |-> Nothing,
     meal_type |-> None, nutrition_profile |-> Nothing, current_intake |-> Nothing,
     recommendations |-> <<>>, nutrient_adjustments |-> <<>>,
     food_called |-> FALSE, food_empty |-> FALSE, meal_calls |-> 0,
     health_out |-> <<>>, raised_at |-> "none",
     result |-> <<>>, outcome |-> "none", inserted |-> 0,
     rec_id |-> 0, is_accepted |-> FALSE, rating |-> Nothing, feedback |-> Nothing,
     doc |-> Nothing, response |-> "none",
     days |-> 0, active_only |-> TRUE, limit |-> 0, seen |-> <<>>, listed |-> <<>>,
     stats |-> <<>>]

\* `return recommendations[:10]` / `return []`: control goes back to the caller
Returned(c, result) ==
    [c EXCEPT !.result = result,
              !.outcome = "returned",
              !.pc = IF c.kind = "endpoint" THEN "insert" ELSE "done"]

\* variant: the handler lets the exception out of generate
GenerateReraises(c, step) ==
    [c EXCEPT !.raised_at = step, !.outcome = "raised", !.pc = "done"]

\* except Exception as e: logger.error(...); return []
GenerateOnException(c, step) ==
    Returned([c EXCEPT !.raised_at = step], <<>>)

\* NutritionProfile(user_id=..., macro_targets=...) with the default distribution
NutritionProfile(user_id, macro_targets) ==
    [user_id |-> user_id, macro_targets |-> macro_targets,
     meal_distribution |-> DefaultMealDistribution]

\* NutritionProfile.find_one({"user_id": ...}): first stored match, if any
FindProfileOf(user_id) ==
    LET hits == {i \in 1..Len(profiles) : profiles[i].user_id = user_id}
    IN IF hits = {} THEN Nothing
       ELSE Some(profiles[CHOOSE i \in hits : \A j \in hits : i <= j])

\* engine.generate_comprehensive_recommendations(user, current_intake, meal_type)
CallGenerate(p, user, current_intake_arg, meal_type) ==
    /\ call[p].pc = "idle"
    /\ call' = [call EXCEPT ![p] =
                  [IdleCall EXCEPT !.pc = "profile", !.kind = "engine", !.user = Some(user),
                                   !.current_intake_arg = current_intake_arg,
                                   !.meal_type = meal_type]]
    /\ UNCHANGED <<profiles, store, gap, food, now, requests, probe>>

\* profile = await NutritionProfile.find_one(...)
FindProfile(p, db_raises) ==
    /\ call[p].pc = "profile"
    /\ LET c == call[p]
           profile == FindProfileOf(c.user[1].id)
       IN call' = [call EXCEPT ![p] =
                     IF db_raises THEN GenerateOnException(c, "profile")
                     ELSE IF profile = Nothing THEN [c EXCEPT !.pc = "create"]
                     ELSE [c EXCEPT !.pc = "intake", !.nutrition_profile = profile]]
    /\ UNCHANGED <<profiles, store, gap, food, now, requests, probe>>

\* if not profile: get_nutrition_recommendations(user); await profile.insert()
CreateProfile(p, calculated, insert_raises) ==
    /\ call[p].pc = "create"
    /\ LET c == call[p]
           profile == NutritionProfile(c.user[1].id, calculated.value)
       IN IF calculated.raises \/ insert_raises
          THEN /\ call' = [call EXCEPT ![p] = GenerateOnException(c, "profile")]
               /\ UNCHANGED profiles
          ELSE /\ profiles' = Append(profiles, profile)
               /\ call' = [call EXCEPT ![p] =
                             [c EXCEPT !.pc = "intake", !.nutrition_profile = Some(profile)]]
    /\ UNCHANGED <<store, gap, food, now, requests, probe>>

ZeroIntake ==
    [n \in {"calories", "protein_g", "carbs_g", "fat_g", "fiber_g"} |-> 0]

\* if current_intake is None: current_intake = await self._get_current_daily_intake(user)
\* daily_intake is the reply of DailyIntake.find_one: Nothing or Some(document)
GetIntake(p, daily_intake) ==
    /\ call[p].pc = "intake"
    /\ LET c == call[p]
       IN call' = [call EXCEPT ![p] =
                     IF c.current_intake_arg # Nothing
                     THEN [c EXCEPT !.pc = "gap", !.current_intake = c.current_intake_arg]
                     ELSE IF daily_intake.raises THEN GenerateOnException(c, "intake")
                     ELSE IF daily_intake.value = Nothing
                     THEN [c EXCEPT !.pc = "gap", !.current_intake = Some(ZeroIntake)]
                     ELSE [c EXCEPT !.pc = "gap", !.current_intake = daily_intake.value]]
    /\ UNCHANGED <<profiles, store, gap, food, now, requests, probe>>

\* recommendations.extend(await self._generate_nutrient_gap_recommendations(...))
GapStep(p) ==
    /\ call[p].pc = "gap"
    /\ LET c == call[p]
           r == GapRecommendations(c.user[1], c.nutrition_profile[1].macro_targets,
                                   c.current_intake[1])
           c1 == [c EXCEPT !.nutrient_adjustments = r.nutrient_adjustments]
       IN call' = [call EXCEPT ![p] =
                     IF r.raised THEN GenerateOnException(c1, "gap")
                     ELSE [c1 EXCEPT !.pc = "food",
                                     !.recommendations = c.recommendations \o r.recommendations]]
    /\ UNCHANGED <<profiles, store, gap, food, now, requests, probe>>

\* recommendations.extend(await self._generate_food_suggestions(...))
FoodStep(p, current_hour, reply) ==
    /\ call[p].pc = "food"
    /\ LET c == call[p]
           r == _generate_food_suggestions(c.user[1], c.nutrition_profile[1].macro_targets,
                                           c.current_intake[1], c.meal_type,
                                           current_hour, reply, now)
           c1 == [c EXCEPT !.food_called = r.called,
                           !.food_empty = r.called /\ (reply.raises \/ reply.value = <<>>)]
       IN call' = [call EXCEPT ![p] =
                     IF r.raised THEN GenerateOnException(c1, "food")
                     ELSE [c1 EXCEPT !.pc = "meal",
                                     !.recommendations = c.recommendations \o r.recommendations]]
    /\ UNCHANGED <<profiles, store, gap, food, now, requests, probe>>

\* recommendations.extend(await self._generate_meal_plan_recommendations(...))
MealStep(p, recent_logs, replies) ==
    /\ call[p].pc = "meal"
    /\ LET c == call[p]
           r == _generate_meal_plan_recommendations(c.user[1], c.nutrition_profile[1],
                                                    recent_logs, replies, now)
       IN call' = [call EXCEPT ![p] =
                     [c EXCEPT !.pc = "health", !.meal_calls = r.calls,
                               !.recommendations = c.recommendations \o r.recommendations]]
    /\ UNCHANGED <<profiles, store, gap, food, now, requests, probe>>

\* recommendations.extend(await self._generate_health_optimization_recommendations(...))
HealthStep(p) ==
    /\ call[p].pc = "health"
    /\ LET c == call[p]
           r == _generate_health_optimization_recommendations(c.user[1],
                                                              c.current_intake[1], now)
       IN call' = [call EXCEPT ![p] =
                     [c EXCEPT !.pc = "rank", !.health_out = r,
                               !.recommendations = c.recommendations \o r]]
    /\ UNCHANGED <<profiles, store, gap, food, now, requests, probe>>

\* recommendations.sort(...); return recommendations[:10]
RankStep(p) ==
    /\ call[p].pc = "rank"
    /\ call' = [call EXCEPT ![p] = Returned(call[p], Rank(call[p].recommendations))]
    /\ UNCHANGED <<profiles, store, gap, food, now, requests, probe>>

-----------------------------------------------------------------------------
(* Direct calls of the sub-generators *)

NotRun == [ran |-> FALSE]

\* engine._generate_nutrient_gap_recommendations(user, profile, current_intake)
AnalyzeGaps(user, macro_targets, current_intake) ==
    /\ ~gap.ran /\ ~food.ran
    /\ \A p \in Procs : call[p].pc = "idle"
    /\ LET r == GapRecommendations(user, macro_targets, current_intake)
       IN gap' = [ran |-> TRUE, macro_targets |-> macro_targets,
                  current_intake |-> current_intake,
                  severity |-> [n \in DOMAIN macro_targets |->
                                   Severity(Get(current_intake, n, 0), macro_targets[n])],
                  nutrient_adjustments |-> r.nutrient_adjustments,
                  raised |-> r.raised,
                  recommendations |-> r.recommendations]
    /\ UNCHANGED <<profiles, store, call, food, now, requests, probe>>

\* engine._generate_food_suggestions(user, profile, current_intake, meal_type)
SuggestFoods(user, macro_targets, current_intake, meal_type, current_hour, reply) ==
    /\ ~gap.ran /\ ~food.ran
    /\ \A p \in Procs : call[p].pc = "idle"
    /\ LET r == _generate_food_suggestions(user, macro_targets, current_intake,
                                           meal_type, current_hour, reply, now)
       IN food' = [ran |-> TRUE, user |-> user, macro_targets |-> macro_targets,
                   current_intake |-> current_intake, meal_type |-> meal_type,
                   current_hour |-> current_hour,
                   reply |-> IF r.called THEN Some(reply) ELSE Nothing,
                   called |-> r.called, request |-> r.request, raised |-> r.raised,
                   recommendations |-> r.recommendations]
    /\ UNCHANGED <<profiles, store, call, gap, now, requests, probe>>

\* engine._check_allergens(suggestion, user_allergies)
CheckAllergens(suggestion, user_allergies) ==
    /\ ~probe.ran
    /\ \A p \in Procs : call[p].pc = "idle"
    /\ probe' = [ran |-> TRUE, fn |-> "_check_allergens", suggestion |-> suggestion,
                 user_allergies |-> user_allergies,
                 warnings |-> _check_allergens(suggestion, user_allergies)]
    /\ UNCHANGED <<profiles, store, call, gap, food, now, requests>>

\* the five rule packs by the name of their method
PackResult(pack, user, current_intake, t) ==
    CASE pack = "_diabetes_recommendations" ->
             _diabetes_recommendations(user, current_intake, t)
      [] pack = "_hypertension_recommendations" ->
             _hypertension_recommendations(user, current_intake, t)
      [] pack = "_heart_health_recommendations" ->
             _heart_health_recommendations(user, current_intake, t)
      [] pack = "_anemia_recommendations" ->
             _anemia_recommendations(user, current_intake, t)
      [] pack = "_bone_health_recommendations" ->
             _bone_health_recommendations(user, current_intake, t)

\* engine._<pack>_recommendations(user, current_intake)
RunPack(pack, user, current_intake) ==
    /\ ~probe.ran
    /\ \A p \in Procs : call[p].pc = "idle"
    /\ probe' = [ran |-> TRUE, fn |-> pack, current_intake |-> current_intake,
                 recommendations |-> PackResult(pack, user, current_intake, now)]
    /\ UNCHANGED <<profiles, store, call, gap, food, now, requests>>

\* engine._generate_meal_plan_recommendations(user, nutrition_profile)
BuildMealPlan(user, nutrition_profile, recent_logs, replies) ==
    /\ ~probe.ran
    /\ \A p \in Procs : call[p].pc = "idle"
    /\ LET r == _generate_meal_plan_recommendations(user, nutrition_profile,
                                                    recent_logs, replies, now)
       IN probe' = [ran |-> TRUE, fn |-> "_generate_meal_plan_recommendations",
                    user |-> user, nutrition_profile |-> nutrition_profile,
                    recent_logs |-> recent_logs, replies |-> replies,
                    calls |-> r.calls, recommendations |-> r.recommendations]
    /\ UNCHANGED <<profiles, store, call, gap, food, now, requests>>

\* engine._generate_health_optimization_recommendations(user, current_intake)
OptimizeHealth(user, current_intake) ==
    /\ ~probe.ran
    /\ \A p \in Procs : call[p].pc = "idle"
    /\ probe' = [ran |-> TRUE, fn |-> "_generate_health_optimization_recommendations",
                 user |-> user, current_intake |-> current_intake,
                 recommendations |->
                     _generate_health_optimization_recommendations(user, current_intake, now)]
    /\ UNCHANGED <<profiles, store, call, gap, food, now, requests>>

-----------------------------------------------------------------------------
(* Inputs *)

n_diabetes == <<"T","y","p","e"," ","2"," ","D","i","a","b","e","t","e","s">>
n_pressure == <<"H","i","g","h"," ","B","l","o","o","d"," ","P","r","e","s","s","u","r","e">>
n_heart == <<"H","e","a","r","t"," ","d","i","s","e","a","s","e">>
n_anemia == <<"A","n","e","m","i","a">>
n_osteoporosis == <<"O","s","t","e","o","p","o","r","o","s","i","s">>
n_asthma == <<"A","s","t","h","m","a">>

ConditionNames == {n_diabetes, n_pressure, n_heart, n_anemia, n_osteoporosis, n_asthma}

\* longest health_conditions list explored with free choice of every entry
MaxConditions == 1
\* length of the long health_conditions lists (two names alternating)
ManyConditions == 11

Alternate(a, b, n) == [i \in 1..n |-> [name |-> IF i % 2 = 1 THEN a ELSE b]]

ConditionLists ==
    UNION {[1..n -> {[name |-> c] : c \in ConditionNames}] : n \in 0..MaxConditions}
    \cup {Alternate(n_anemia, n_heart, ManyConditions),
          Alternate(n_diabetes, n_diabetes, ManyConditions)}

UserWith(id, health_conditions) ==
    [id |-> id, age |-> 30, gender |-> "female", activity_level |-> "moderate",
     primary_goal |-> "maintain_weight", health_conditions |-> health_conditions,
     dietary_restrictions |-> <<[type |-> "vegetarian", severity |-> "strict"]>>,
     allergies |-> <<>>]

User(health_conditions) == UserWith("u1", health_conditions)

Users == {User(hc) : hc \in ConditionLists}

\* inputs of the direct dispatch call: names with one keyword, with two, in
\* upper case, with a near miss ("diabetic") and with none
DispatchNames ==
    {n_diabetes, n_heart, n_osteoporosis, n_asthma,
     <<"H","I","G","H"," ","B","L","O","O","D"," ","P","R","E","S","S","U","R","E">>,
     <<"A","n","e","m","i","a"," ","w","i","t","h"," ","h","e","a","r","t"," ","f","a","i","l","u","r","e">>,
     <<"D","i","a","b","e","t","i","c"," ","h","y","p","e","r","t","e","n","s","i","o","n">>,
     <<"D","i","a","b","e","t","e","s"," ","a","n","d"," ","o","s","t","e","o","p","o","r","o","s","i","s">>,
     <<"C","a","r","d","i","o","v","a","s","c","u","l","a","r"," ","d","i","s","e","a","s","e">>}
\* longest health_conditions list of the direct dispatch call
MaxDispatch == 2
DispatchUsers ==
    {User(hc) : hc \in UNION {[1..n -> {[name |-> c] : c \in DispatchNames}] :
                                 n \in 0..MaxDispatch}}
DispatchIntakes ==
    {<<>>,
     [fiber_g |-> 24, sodium_mg |-> 2301, potassium_mg |-> 3500, iron_mg |-> 15,
      vitamin_c_mg |-> 74, calcium_mg |-> 1000, vitamin_d_mcg |-> 15]}

\* users of the direct food suggestion pass: without and with allergies
FoodUsers ==
    {[User(<<[name |-> n_diabetes]>>) EXCEPT !.allergies = a] :
        a \in {<<>>, <<<<"p","e","a","n","u","t">>>>}}

MacroTargets(calories, protein_g, carbs_g, fat_g, fiber_g) ==
    [calories |-> calories, protein_g |-> protein_g, carbs_g |-> carbs_g,
     fat_g |-> fat_g, fiber_g |-> fiber_g]

\* targets of stored and calculated profiles
TargetChoices == {MacroTargets(2000, 100, 250, 70, 28), MacroTargets(2000, 100, 250, 70, 12)}

MacroIntakes ==
    {MacroTargets(2000, p, 250, 70, f) : p \in {40, 100}, f \in {10, 23, 25}}

MicroIntakes ==
    {<<>>,
     [sodium_mg |-> 2300, potassium_mg |-> 3500, iron_mg |-> 15, vitamin_c_mg |-> 75,
      calcium_mg |-> 1000, vitamin_d_mcg |-> 15],
     [sodium_mg |-> 3000, potassium_mg |-> 3500, iron_mg |-> 15, vitamin_c_mg |-> 75,
      calcium_mg |-> 1000, vitamin_d_mcg |-> 15]}

\* {**macros, **micros}
Merge(f, g) ==
    [k \in DOMAIN f \cup DOMAIN g |-> IF k \in DOMAIN g THEN g[k] ELSE f[k]]

Intakes ==
    {Merge(m, u) : m \in MacroIntakes, u \in MicroIntakes}
    \cup {[fiber_g |-> 10], [protein_g |-> 40]}

Suggestions == {<<>>, <<s_oats, s_eggs>>}

\* inputs of the allergen screener
AllergyStrings ==
    {<<"p","e","a","n","u","t">>, <<"P","e","a","n","u","t","s">>, <<"D","a","i","r","y">>, <<"n","u","t","s">>,
     <<"g","l","u","t","e","n">>, <<"S","h","e","l","l","f","i","s","h">>}
MaxAllergies == 2
AllergyLists == UNION {[1..n -> AllergyStrings] : n \in 0..MaxAllergies}
SuggestionNames ==
    {<<"P","e","a","n","u","t"," ","b","u","t","t","e","r"," ","t","o","a","s","t">>, <<"G","r","i","l","l","e","d"," ","S","a","l","m","o","n">>,
     <<"O","a","t","s">>}
IngredientLists ==
    {<<>>, <<[name |-> <<"A","l","m","o","n","d"," ","M","i","l","k">>], [name |-> <<"S","h","r","i","m","p">>]>>}
AllergenSuggestions ==
    {[name |-> n, ingredients |-> i] : n \in SuggestionNames, i \in IngredientLists}
    \cup {[ingredients |-> i] : i \in IngredientLists}
    \cup {[name |-> n] : n \in SuggestionNames}

\* inputs of the direct gap analysis: every target at t, one of them lowered
\* to 0; every intake on target, one of them moved to v or left out
GapTargetLevels == {10, 20}
GapIntakeValues == {0, 4, 5, 7, 8, 9, 10, 15, 16, 30, 31}

Uniform(v) == MacroTargets(v, v, v, v, v)

GapTargets ==
    {Uniform(t) : t \in GapTargetLevels}
    \cup {[Uniform(t) EXCEPT ![n] = 0] :
             t \in GapTargetLevels, n \in {"protein_g", "carbs_g", "fat_g", "fiber_g"}}

Without(f, k) == [x \in DOMAIN f \ {k} |-> f[x]]

GapIntakes(macro_targets) ==
    {macro_targets}
    \cup {[macro_targets EXCEPT ![n] = v] : n \in DOMAIN macro_targets, v \in GapIntakeValues}
    \cup {Without(macro_targets, n) : n \in DOMAIN macro_targets}
    \cup {Uniform(v) : v \in GapIntakeValues}

\* inputs of the direct rule pack calls: every checked nutrient on its
\* threshold or one unit on the triggering side of it, or no key at all
PackNames ==
    {"_diabetes_recommendations", "_hypertension_recommendations",
     "_heart_health_recommendations", "_anemia_recommendations",
     "_bone_health_recommendations"}
PackIntakes ==
    {[fiber_g |-> f, sodium_mg |-> s, potassium_mg |-> k, iron_mg |-> i,
      vitamin_c_mg |-> c, calcium_mg |-> ca, vitamin_d_mcg |-> d] :
        f \in {24, 25}, s \in {2300, 2301}, k \in {3499, 3500}, i \in {14, 15},
        c \in {74, 75}, ca \in {999, 1000}, d \in {14, 15}}
    \cup {<<>>, [sodium_mg |-> 1000, potassium_mg |-> 5000],
          [fiber_g |-> 40, iron_mg |-> 20, vitamin_c_mg |-> 100,
           calcium_mg |-> 1300, vitamin_d_mcg |-> 25]}

\* inputs of the direct food suggestion pass
FoodIntakes ==
    {MacroTargets(c, p, 250, 70, f) : c \in {2000, 2500}, p \in {40, 79, 80}, f \in {9, 10, 23}}
    \cup {[fiber_g |-> 10], [protein_g |-> 80, fiber_g |-> 25]}
\* datetime.now().hour
Hours == 0..23
GeneratorReplies == {Fail} \cup {Reply(v) : v \in Suggestions}
FoodReplies == GeneratorReplies \cup {Reply(<<s_oats, s_eggs, s_oats, s_eggs>>)}

\* replies of the generator to the meal slots; a slot after the first failure
\* is never asked, and stands as Fail
SlotReplies ==
    {r \in [1..Len(DefaultMealDistribution) -> GeneratorReplies] :
        \A i \in DOMAIN r : \A j \in DOMAIN r : (r[i].raises /\ i < j) => r[j].raises}

LogCounts == {Fail, Reply(4), Reply(5)}

\* inputs of the direct meal plan call: the default distribution and one set
\* by the user; what the generator answers for each slot when asked
MealProfiles ==
    {NutritionProfile("u1", MacroTargets(2000, 100, 250, 70, 28)),
     [NutritionProfile("u1", MacroTargets(1800, 90, 200, 60, 25))
         EXCEPT !.meal_distribution = <<[meal_type |-> "lunch", percentage |-> 50],
                                        [meal_type |-> "dinner", percentage |-> 50]>>]}
SlotAnswers == [1..Len(DefaultMealDistribution) -> GeneratorReplies]
MealLogCounts == LogCounts \cup {Reply(0), Reply(6)}

-----------------------------------------------------------------------------
(* Engine calls: the engine keeps no state, so each behaviour explores one
   call from the initial collections *)

Init ==
    /\ profiles \in {<<>>} \cup {<<NutritionProfile("u1", t)>> : t \in TargetChoices}
    /\ store = <<>>
    /\ call = [p \in Procs |-> IdleCall]
    /\ gap = NotRun
    /\ food = NotRun
    /\ now = 0
    /\ requests = 0
    /\ probe = NotRun

Caller == CHOOSE p \in Procs : \A q \in Procs : p <= q

Fresh == ~gap.ran /\ ~food.ran /\ ~probe.ran /\ \A p \in Procs : call[p].pc = "idle"

At(p, pc) == call[p].pc = pc

Generate ==
    \/ /\ Fresh
       /\ \E u \in Users, i \in {Nothing} \cup {Some(x) : x \in Intakes} :
             CallGenerate(Caller, u, i, None)
    \/ /\ At(Caller, "profile")
       /\ \E db_raises \in BOOLEAN : FindProfile(Caller, db_raises)
    \/ /\ At(Caller, "create")
       /\ \E calculated \in {Fail} \cup {Reply(t) : t \in TargetChoices},
             insert_raises \in BOOLEAN : CreateProfile(Caller, calculated, insert_raises)
    \/ /\ At(Caller, "intake")
       /\ \E d \in {Fail, Reply(Nothing), Reply(Some([fiber_g |-> 10]))} :
             GetIntake(Caller, d)
    \/ GapStep(Caller)
    \/ /\ At(Caller, "food")
       /\ \E h \in {8}, r \in GeneratorReplies : FoodStep(Caller, h, r)
    \/ /\ At(Caller, "meal")
       /\ \E l \in LogCounts, r \in SlotReplies : MealStep(Caller, l, r)
    \/ HealthStep(Caller)
    \/ RankStep(Caller)

Direct ==
    /\ Fresh
    /\ \/ \E t \in GapTargets : \E i \in GapIntakes(t) :
             AnalyzeGaps(User(<<>>), t, i)
       \/ \E t \in TargetChoices, i \in FoodIntakes, m \in {None, "lunch"},
             h \in Hours, r \in FoodReplies :
             /\ (m # None => h = 0)
             /\ \E u \in FoodUsers : SuggestFoods(u, t, i, m, h, r)
       \/ \E g \in AllergenSuggestions, a \in AllergyLists : CheckAllergens(g, a)
       \/ \E k \in PackNames, i \in PackIntakes :
             RunPack(k, User(<<>>), i)
       \/ \E n \in MealProfiles, l \in MealLogCounts, r \in SlotAnswers :
             BuildMealPlan(User(<<>>), n, l, r)
       \/ \E u \in DispatchUsers, i \in DispatchIntakes : OptimizeHealth(u, i)

Next == Generate \/ Direct

Spec == Init /\ [][Next]_vars

-----------------------------------------------------------------------------
(* Recommendation Lifecycle Manager and the endpoints *)

\* deactivate_old_recommendations(user_id, days_old=7)
days_old == 7

\* variant: the cutoff lies one day further back
DeactivateOlderByADay(recommendations, user_id, days, t) ==
    [i \in DOMAIN recommendations |->
        IF /\ recommendations[i].user_id = user_id
           /\ recommendations[i].created_at < t - days - 1
           /\ recommendations[i].is_active
        THEN [recommendations[i] EXCEPT !.is_active = FALSE]
        ELSE recommendations[i]]

\* the bulk update {"user_id", "created_at": {"$lt": cutoff}, "is_active": True}
\*   -> {"$set": {"is_active": False}}
\* variant: the bulk update matches nothing
DeactivateSkipped(recommendations, user_id, days, t) == recommendations

\* variant: the cutoff itself counts as old ($lte)
DeactivateAtCutoff(recommendations, user_id, days, t) ==
    [i \in DOMAIN recommendations |->
        IF /\ recommendations[i].user_id = user_id
           /\ recommendations[i].created_at <= t - days
           /\ recommendations[i].is_active
        THEN [recommendations[i] EXCEPT !.is_active = FALSE]
        ELSE recommendations[i]]

DeactivateOld(recommendations, user_id, days, t) ==
    [i \in DOMAIN recommendations |->
        IF /\ recommendations[i].user_id = user_id
           /\ recommendations[i].created_at < t - days
           /\ recommendations[i].is_active
        THEN [recommendations[i] EXCEPT !.is_active = FALSE]
        ELSE recommendations[i]]

\* POST /generate accepted: generate_recommendations(request, current_user)
PostGenerate(p, user) ==
    /\ call[p].pc = "idle"
    /\ call' = [call EXCEPT ![p] =
                  [IdleCall EXCEPT !.pc = "deactivate", !.kind = "endpoint",
                                   !.user = Some(user)]]
    /\ requests' = requests + 1
    /\ UNCHANGED <<profiles, store, gap, food, now, probe>>

\* await recommendation_engine.deactivate_old_recommendations(str(current_user.id));
\* an exception of the update is logged inside and the pass goes on
Deactivate(p, db_raises) ==
    /\ call[p].pc = "deactivate"
    /\ store' = IF db_raises THEN store
                ELSE DeactivateOld(store, call[p].user[1].id, days_old, now)
    /\ call' = [call EXCEPT ![p].pc = "profile"]
    /\ UNCHANGED <<profiles, gap, food, now, requests, probe>>

\* HTTP status codes of the responses
OK == "200"
NOT_FOUND == "404"
UNPROCESSABLE == "422"
SERVER_ERROR == "500"

\* what the loop `for rec in recommendations: await rec.insert()` does when
\* one insert raises: the handler answers 500, earlier inserts stay stored
InsertNext(p, insert_raises) ==
    /\ call[p].pc = "insert"
    /\ LET c == call[p]
       IN IF c.inserted = Len(c.result)
          THEN /\ call' = [call EXCEPT ![p] = [c EXCEPT !.pc = "done", !.response = OK]]
               /\ UNCHANGED store
          ELSE IF insert_raises
          THEN /\ call' = [call EXCEPT ![p] =
                             [c EXCEPT !.pc = "done", !.response = SERVER_ERROR]]
               /\ UNCHANGED store
          ELSE /\ store' = Append(store, c.result[c.inserted + 1])
               /\ call' = [call EXCEPT ![p].inserted = c.inserted + 1]
    /\ UNCHANGED <<profiles, gap, food, now, requests, probe>>

\* RecommendationFeedback: rating: Optional[int] = Field(None, ge=1, le=5),
\* feedback: Optional[str] = None
FeedbackSchemaAccepts(rating, feedback) ==
    rating = Nothing \/ (1 <= rating[1] /\ rating[1] <= 5)

\* POST /{recommendation_id}/feedback: the body is validated before the handler
\* runs; feedback is the length of the text
SubmitFeedback(p, user, recommendation_id, is_accepted, rating, feedback) ==
    /\ call[p].pc = "idle"
    /\ call' = [call EXCEPT ![p] =
                  [IdleCall EXCEPT
                      !.kind = "feedback", !.user = Some(user),
                      !.rec_id = recommendation_id, !.is_accepted = is_accepted,
                      !.rating = rating, !.feedback = feedback,
                      !.pc = IF FeedbackSchemaAccepts(rating, feedback)
                             THEN "get" ELSE "done",
                      !.response = IF FeedbackSchemaAccepts(rating, feedback)
                                   THEN "none" ELSE UNPROCESSABLE]]
    /\ requests' = requests + 1
    /\ UNCHANGED <<profiles, store, gap, food, now, probe>>

\* variant: the lookup without the ownership test
GetByIdAnyOwner(recommendation_id, user_id) ==
    IF recommendation_id \in DOMAIN store
    THEN Some(store[recommendation_id])
    ELSE Nothing

\* get_recommendation_by_id: the document, if it exists and is the user's
get_recommendation_by_id(recommendation_id, user_id) ==
    IF recommendation_id \in DOMAIN store /\ store[recommendation_id].user_id = user_id
    THEN Some(store[recommendation_id])
    ELSE Nothing

\* update_recommendation_feedback up to the save: the lookup, and the changes
\* made to the loaded document
FeedbackGet(p) ==
    /\ call[p].pc = "get" /\ call[p].kind = "feedback"
    /\ LET c == call[p]
           recommendation == get_recommendation_by_id(c.rec_id, c.user[1].id)
       IN call' = [call EXCEPT ![p] =
                     IF recommendation = Nothing
                     THEN [c EXCEPT !.pc = "done", !.response = NOT_FOUND]
                     ELSE [c EXCEPT !.pc = "save",
                             !.doc = Some(
                                [recommendation[1] EXCEPT
                                   !.is_viewed = TRUE,
                                   !.is_accepted = c.is_accepted,
                                   !.user_rating =
                                       IF c.rating # Nothing /\ c.rating[1] # 0
                                       THEN c.rating ELSE @,
                                   !.user_feedback =
                                       IF c.feedback # Nothing /\ c.feedback[1] # 0
                                       THEN c.feedback ELSE @])]]
    /\ UNCHANGED <<profiles, store, gap, food, now, requests, probe>>

\* await recommendation.save(): the loaded document replaces the stored one
FeedbackSave(p, db_raises) ==
    /\ call[p].pc = "save" /\ call[p].kind = "feedback"
    /\ IF db_raises
       THEN /\ call' = [call EXCEPT ![p].pc = "done", ![p].response = NOT_FOUND]
            /\ UNCHANGED store
       ELSE /\ store' = [store EXCEPT ![call[p].rec_id] = call[p].doc[1]]
            /\ call' = [call EXCEPT ![p].pc = "done", ![p].response = OK]
    /\ UNCHANGED <<profiles, gap, food, now, requests, probe>>

-----------------------------------------------------------------------------
(* The service: requests of two clients against the stored collections *)

\* requests accepted in one behaviour
MaxRequests == 2

u1 == UserWith("u1", <<[name |-> n_anemia], [name |-> n_heart]>>)
u2 == UserWith("u2", <<>>)
ServiceUsers == {u1, u2}

StandardTargets == MacroTargets(2000, 100, 250, 70, 28)

\* a stored recommendation created at t
Stored(user_id, t) ==
    Recommendation(user_id, "health_optimization", "Bone Health Support",
                   <<>>, <<>>, Nothing, 87, HIGH, "high", t)

\* today's DailyIntake document of a user who is on target
OnTargetIntake == MacroTargets(2000, 100, 250, 70, 23)

\* lengths of the feedback texts submitted
FeedbackLengths == {0, 1000, 1001}
Ratings == {0, 1, 5, 6}

InitService ==
    /\ profiles \in {<<>>, <<NutritionProfile("u1", StandardTargets)>>}
    /\ store \in {<<>>, <<Stored("u1", 0), Stored("u2", 5)>>}
    /\ call = [p \in Procs |-> IdleCall]
    /\ gap = NotRun
    /\ food = NotRun
    /\ now = 8
    /\ requests = 0
    /\ probe = NotRun

Pass(p) ==
    \/ /\ At(p, "idle") /\ requests < MaxRequests
       /\ \E u \in ServiceUsers : PostGenerate(p, u)
    \/ /\ At(p, "deactivate")
       /\ \E db_raises \in BOOLEAN : Deactivate(p, db_raises)
    \/ /\ At(p, "profile")
       /\ \E db_raises \in BOOLEAN : FindProfile(p, db_raises)
    \/ /\ At(p, "create")
       /\ \E calculated \in {Fail, Reply(StandardTargets)} :
             CreateProfile(p, calculated, FALSE)
    \/ /\ At(p, "intake")
       /\ \E d \in {Reply(Nothing), Reply(Some(OnTargetIntake))} : GetIntake(p, d)
    \/ GapStep(p)
    \/ FoodStep(p, 8, Fail)
    \/ /\ At(p, "meal")
       /\ \E l \in {Reply(4), Reply(5)} :
             MealStep(p, l, [i \in 1..Len(DefaultMealDistribution) |->
                                Reply(<<s_oats, s_eggs>>)])
    \/ HealthStep(p)
    \/ RankStep(p)
    \/ /\ At(p, "insert")
       /\ \E insert_raises \in BOOLEAN : InsertNext(p, insert_raises)

Feedback(p) ==
    \/ /\ At(p, "idle") /\ requests < MaxRequests
       /\ \E u \in ServiceUsers, id \in 1..(Len(store) + 1), a \in BOOLEAN,
             r \in {Nothing} \cup {Some(x) : x \in Ratings},
             f \in {Nothing} \cup {Some(x) : x \in FeedbackLengths} :
             SubmitFeedback(p, u, id, a, r, f)
    \/ FeedbackGet(p)
    \/ /\ At(p, "save")
       /\ \E db_raises \in BOOLEAN : FeedbackSave(p, db_raises)

\* the response is sent and the worker is free again
Respond(p) ==
    /\ call[p].pc = "done" /\ call[p].kind # "engine"
    /\ call' = [call EXCEPT ![p] = IdleCall]
    /\ UNCHANGED <<profiles, store, gap, food, now, requests, probe>>

NextService == \E p \in Procs : Pass(p) \/ Feedback(p) \/ Respond(p)

SpecService == InitService /\ [][NextService]_vars


-----------------------------------------------------------------------------
(* The Lifecycle Manager: reads and updates of stored recommendations, by
   two clients at a time, next to generation passes *)

\* engine.deactivate_old_recommendations(user_id, days_old) called on its own:
\* one bulk update; an exception of the update is logged and swallowed
DeactivateStale(p, user, days, db_raises) ==
    /\ call[p].pc = "idle"
    /\ store' = IF db_raises THEN store ELSE DeactivateOld(store, user.id, days, now)
    /\ call' = [call EXCEPT ![p] =
                  [IdleCall EXCEPT !.pc = "done", !.kind = "deactivate_stale",
                                   !.user = Some(user), !.days = days, !.seen = store,
                                   !.raised_at = IF db_raises THEN "update" ELSE "none",
                                   !.response = OK]]
    /\ requests' = requests + 1
    /\ UNCHANGED <<profiles, gap, food, now, probe>>

\* GET /{recommendation_id} accepted: get_recommendation_details
GetDetails(p, user, recommendation_id) ==
    /\ call[p].pc = "idle"
    /\ call' = [call EXCEPT ![p] =
                  [IdleCall EXCEPT !.pc = "get", !.kind = "view", !.user = Some(user),
                                   !.rec_id = recommendation_id]]
    /\ requests' = requests + 1
    /\ UNCHANGED <<profiles, store, gap, food, now, probe>>

\* get_recommendation_details: the lookup; 404 when nothing is returned; a
\* document not yet viewed is marked and goes on to be saved
ViewGet(p) ==
    /\ call[p].pc = "get" /\ call[p].kind = "view"
    /\ LET c == call[p]
           recommendation == get_recommendation_by_id(c.rec_id, c.user[1].id)
       IN call' = [call EXCEPT ![p] =
                     IF recommendation = Nothing
                     THEN [c EXCEPT !.pc = "done", !.response = NOT_FOUND]
                     ELSE IF ~recommendation[1].is_viewed
                     THEN [c EXCEPT !.pc = "save",
                             !.doc = Some([recommendation[1] EXCEPT !.is_viewed = TRUE])]
                     ELSE [c EXCEPT !.pc = "done", !.doc = recommendation,
                                    !.response = OK]]
    /\ UNCHANGED <<profiles, store, gap, food, now, requests, probe>>

\* await recommendation.save() of the viewed document; a failure answers 500
ViewSave(p, db_raises) ==
    /\ call[p].pc = "save" /\ call[p].kind = "view"
    /\ IF db_raises
       THEN /\ call' = [call EXCEPT ![p].pc = "done", ![p].response = SERVER_ERROR]
            /\ UNCHANGED store
       ELSE /\ store' = [store EXCEPT ![call[p].rec_id] = call[p].doc[1]]
            /\ call' = [call EXCEPT ![p].pc = "done", ![p].response = OK]
    /\ UNCHANGED <<profiles, gap, food, now, requests, probe>>

\* ids of the documents matching {"user_id": user_id} (and "is_active": True)
Matching(recommendations, user_id, active_only) ==
    {i \in DOMAIN recommendations :
        /\ recommendations[i].user_id = user_id
        /\ active_only => recommendations[i].is_active}

\* variant: created_at ascending
ListBeforeOldestFirst(a, b) ==
    \/ a.priority < b.priority
    \/ a.priority = b.priority /\ a.created_at < b.created_at

\* a sorts before b under [("priority", 1), ("created_at", -1)]
ListBefore(a, b) ==
    \/ a.priority < b.priority
    \/ a.priority = b.priority /\ a.created_at > b.created_at

\* the orders in which the database may return the documents `ids`, sorted by
\* (priority ascending, created_at descending); documents that tie on both
\* keys come in any order
RECURSIVE SortedOrders(_, _)
SortedOrders(recommendations, ids) ==
    IF ids = {} THEN {<<>>}
    ELSE UNION {{<<m>> \o rest : rest \in SortedOrders(recommendations, ids \ {m})} :
                  m \in {x \in ids : \A y \in ids :
                            ~ListBefore(recommendations[y], recommendations[x])}}

\* Recommendation.find(query).sort([...]).limit(limit).to_list(): the ids
\* returned, for one of the orders the database may choose
FindSortedLimited(recommendations, user_id, active_only, limit) ==
    {Take(order, limit) :
        order \in SortedOrders(recommendations,
                               Matching(recommendations, user_id, active_only))}

\* get_user_recommendations(user_id, active_only, limit); returns [] when the
\* query raises
ListForUser(p, user, active_only, limit, db_raises) ==
    /\ call[p].pc = "idle"
    /\ \E found \in FindSortedLimited(store, user.id, active_only, limit) :
          call' = [call EXCEPT ![p] =
                     [IdleCall EXCEPT !.pc = "done", !.kind = "list", !.user = Some(user),
                                      !.active_only = active_only, !.limit = limit,
                                      !.seen = store,
                                      !.listed = IF db_raises THEN <<>> ELSE found,
                                      !.raised_at = IF db_raises THEN "find" ELSE "none",
                                      !.response = OK]]
    /\ requests' = requests + 1
    /\ UNCHANGED <<profiles, store, gap, food, now, probe>>

\* ids of the documents of user_id
OfUser(recommendations, user_id) == Matching(recommendations, user_id, FALSE)

\* sum(r.user_rating for r in rated_recommendations)
RECURSIVE SumRatings(_, _)
SumRatings(recommendations, ids) ==
    IF ids = {} THEN 0
    ELSE LET i == CHOOSE x \in ids : TRUE
         IN recommendations[i].user_rating[1] + SumRatings(recommendations, ids \ {i})

\* the orders in which .sort([("created_at", -1)]) may return the documents
RECURSIVE RecentOrders(_, _)
RecentOrders(recommendations, ids) ==
    IF ids = {} THEN {<<>>}
    ELSE UNION {{<<m>> \o rest : rest \in RecentOrders(recommendations, ids \ {m})} :
                  m \in {x \in ids : \A y \in ids :
                            recommendations[y].created_at <= recommendations[x].created_at}}

\* the dictionary returned when a query of get_recommendation_stats raises
EmptyStats ==
    [total_recommendations |-> 0, active_recommendations |-> 0,
     accepted_recommendations |-> 0, average_rating |-> Nothing,
     recommendations_by_type |-> <<>>, recent_recommendations |-> <<>>]

StatsFailed(c) ==
    [c EXCEPT !.pc = "done", !.raised_at = "stats", !.stats = EmptyStats, !.response = OK]

\* get_recommendation_stats(user_id) up to its first query:
\* total_recommendations = find({"user_id"}).count()
GetStats(p, user, db_raises) ==
    /\ call[p].pc = "idle"
    /\ LET c == [IdleCall EXCEPT !.kind = "stats", !.user = Some(user), !.seen = store]
       IN call' = [call EXCEPT ![p] =
                     IF db_raises THEN StatsFailed(c)
                     ELSE [c EXCEPT !.pc = "stats_active",
                             !.stats = [EmptyStats EXCEPT !.total_recommendations =
                                          Cardinality(OfUser(store, user.id))]]]
    /\ requests' = requests + 1
    /\ UNCHANGED <<profiles, store, gap, food, now, probe>>

\* active_recommendations = find({"user_id", "is_active": True}).count()
StatsActive(p, db_raises) ==
    /\ call[p].pc = "stats_active"
    /\ call' = [call EXCEPT ![p] =
                  IF db_raises THEN StatsFailed(call[p])
                  ELSE [call[p] EXCEPT !.pc = "stats_accepted",
                          !.stats.active_recommendations =
                              Cardinality(Matching(store, call[p].user[1].id, TRUE))]]
    /\ UNCHANGED <<profiles, store, gap, food, now, requests, probe>>

\* accepted_recommendations = find({"user_id", "is_accepted": True}).count()
StatsAccepted(p, db_raises) ==
    /\ call[p].pc = "stats_accepted"
    /\ call' = [call EXCEPT ![p] =
                  IF db_raises THEN StatsFailed(call[p])
                  ELSE [call[p] EXCEPT !.pc = "stats_rated",
                          !.stats.accepted_recommendations =
                              Cardinality({i \in OfUser(store, call[p].user[1].id) :
                                              store[i].is_accepted})]]
    /\ UNCHANGED <<profiles, store, gap, food, now, requests, probe>>

\* rated_recommendations = find({"user_id", "user_rating": {"$exists": True,
\* "$ne": None}}).to_list(); avg_rating = sum / len, kept as the pair
\* [sum, count], or None when nothing is rated
StatsRated(p, db_raises) ==
    /\ call[p].pc = "stats_rated"
    /\ LET rated == {i \in OfUser(store, call[p].user[1].id) :
                        store[i].user_rating # Nothing}
       IN call' = [call EXCEPT ![p] =
                     IF db_raises THEN StatsFailed(call[p])
                     ELSE [call[p] EXCEPT !.pc = "stats_types",
                             !.stats.average_rating =
                                 IF rated = {} THEN Nothing
                                 ELSE Some([sum |-> SumRatings(store, rated),
                                            count |-> Cardinality(rated)])]]
    /\ UNCHANGED <<profiles, store, gap, food, now, requests, probe>>

\* all_recommendations = find({"user_id"}).to_list(), counted by
\* recommendation_type
StatsTypes(p, db_raises) ==
    /\ call[p].pc = "stats_types"
    /\ LET all == OfUser(store, call[p].user[1].id)
           types == {store[i].recommendation_type : i \in all}
       IN call' = [call EXCEPT ![p] =
                     IF db_raises THEN StatsFailed(call[p])
                     ELSE [call[p] EXCEPT !.pc = "stats_recent",
                             !.stats.recommendations_by_type =
                                 [t \in types |->
                                    Cardinality({i \in all :
                                                    store[i].recommendation_type = t})]]]
    /\ UNCHANGED <<profiles, store, gap, food, now, requests, probe>>

\* recent_recommendations = find({"user_id"}).sort([("created_at", -1)])
\* .limit(5).to_list(), and the return of the dictionary
StatsRecent(p, db_raises) ==
    /\ call[p].pc = "stats_recent"
    /\ \E order \in RecentOrders(store, OfUser(store, call[p].user[1].id)) :
          call' = [call EXCEPT ![p] =
                     IF db_raises THEN StatsFailed(call[p])
                     ELSE [call[p] EXCEPT !.pc = "done", !.response = OK,
                             !.stats.recent_recommendations = Take(order, 5)]]
    /\ UNCHANGED <<profiles, store, gap, food, now, requests, probe>>

\* a stored meal plan recommendation created at t
StoredPlan(user_id, t) ==
    Recommendation(user_id, "meal_plan", "Personalized Daily Meal Plan",
                   <<>>, <<>>, Nothing, 70, LOW, "high", t)

\* the collection at the start: old and recent documents of both users, one
\* of them deactivated and rated earlier
InitialStore ==
    <<Stored("u1", 0),
      Stored("u2", 5),
      [StoredPlan("u1", 0) EXCEPT !.is_active = FALSE, !.is_viewed = TRUE,
                                  !.is_accepted = TRUE, !.user_rating = Some(4)],
      StoredPlan("u1", 5)>>

\* ids asked for: the first documents of the collection and one that is absent
LookupIds == {1, 2, 3, Len(store) + 1}

\* limit values passed to list_for_user
Limits == {1, 2, 10}

\* days_old values passed to deactivate_stale
DaysOld == {2, 3, days_old}

\* a collection in which every active recommendation of u1 is stale
StaleStore == <<Stored("u1", 0), Stored("u2", 5)>>

InitLifecycle ==
    /\ profiles = <<>>
    /\ store \in {InitialStore, StaleStore}
    /\ call = [p \in Procs |-> IdleCall]
    /\ gap = NotRun
    /\ food = NotRun
    /\ now = 8
    /\ requests = 0
    /\ probe = NotRun

\* a generation pass whose collaborators answer
LifecyclePass(p) ==
    \/ /\ At(p, "idle") /\ requests < MaxRequests
       /\ \E u \in ServiceUsers : PostGenerate(p, u)
    \/ /\ At(p, "deactivate") /\ Deactivate(p, FALSE)
    \/ /\ At(p, "profile") /\ FindProfile(p, FALSE)
    \/ /\ At(p, "create") /\ CreateProfile(p, Reply(StandardTargets), FALSE)
    \/ /\ At(p, "intake") /\ GetIntake(p, Reply(Some(OnTargetIntake)))
    \/ GapStep(p)
    \/ FoodStep(p, 8, Fail)
    \/ /\ At(p, "meal")
       /\ MealStep(p, Reply(5), [i \in 1..Len(DefaultMealDistribution) |-> Fail])
    \/ HealthStep(p)
    \/ RankStep(p)
    \/ /\ At(p, "insert") /\ InsertNext(p, FALSE)

LifecycleUpdates(p) ==
    \/ /\ At(p, "idle") /\ requests < MaxRequests
       /\ \E u \in ServiceUsers, d \in DaysOld, db_raises \in BOOLEAN :
             DeactivateStale(p, u, d, db_raises)
    \/ /\ At(p, "idle") /\ requests < MaxRequests
       /\ \E u \in ServiceUsers, id \in LookupIds, a \in BOOLEAN,
             r \in {Nothing, Some(5)}, f \in {Nothing, Some(20)} :
             SubmitFeedback(p, u, id, a, r, f)
    \/ FeedbackGet(p)
    \/ /\ At(p, "save") /\ call[p].kind = "feedback"
       /\ \E db_raises \in BOOLEAN : FeedbackSave(p, db_raises)
    \/ /\ At(p, "idle") /\ requests < MaxRequests
       /\ \E u \in ServiceUsers, id \in LookupIds : GetDetails(p, u, id)
    \/ ViewGet(p)
    \/ /\ At(p, "save") /\ call[p].kind = "view"
       /\ \E db_raises \in BOOLEAN : ViewSave(p, db_raises)

LifecycleReads(p) ==
    \/ /\ At(p, "idle") /\ requests < MaxRequests
       /\ \E u \in ServiceUsers, a \in BOOLEAN, l \in Limits, db_raises \in BOOLEAN :
             ListForUser(p, u, a, l, db_raises)
    \/ /\ At(p, "idle") /\ requests < MaxRequests
       /\ \E u \in ServiceUsers, db_raises \in BOOLEAN : GetStats(p, u, db_raises)
    \/ /\ At(p, "stats_active") /\ \E db_raises \in BOOLEAN : StatsActive(p, db_raises)
    \/ /\ At(p, "stats_accepted") /\ \E db_raises \in BOOLEAN : StatsAccepted(p, db_raises)
    \/ /\ At(p, "stats_rated") /\ \E db_raises \in BOOLEAN : StatsRated(p, db_raises)
    \/ /\ At(p, "stats_types") /\ \E db_raises \in BOOLEAN : StatsTypes(p, db_raises)
    \/ /\ At(p, "stats_recent") /\ \E db_raises \in BOOLEAN : StatsRecent(p, db_raises)

NextLifecycle ==
    \E p \in Procs :
        LifecyclePass(p) \/ LifecycleUpdates(p) \/ LifecycleReads(p) \/ Respond(p)

SpecLifecycle == InitLifecycle /\ [][NextLifecycle]_vars

-----------------------------------------------------------------------------
(* Properties *)

\* generate has handed control back for request p
Finished(p) == call[p].outcome # "none"

\* the collaborators of request p answered: nothing raised before the gap analysis
CollaboratorsAnswered(p) == call[p].raised_at \notin {"profile", "intake"}

HasCondition(user, name) ==
    \E i \in DOMAIN user.health_conditions : user.health_conditions[i].name = name

AdjustmentsFor(adjustments, nutrient) ==
    {i \in DOMAIN adjustments : adjustments[i].nutrient_name = nutrient}

\* C1: scenario A. With protein target 100 and supplied protein intake 40,
\* the list generate returns holds a nutrient_adjustment recommendation whose
\* adjustments include protein_g: 40 -> 100, amount 60, direction increase.
C1_ScenarioA ==
    \A p \in Procs :
        (/\ Finished(p)
         /\ CollaboratorsAnswered(p)
         /\ call[p].nutrition_profile[1].macro_targets.protein_g = 100
         /\ call[p].current_intake_arg # Nothing
         /\ Get(call[p].current_intake_arg[1], "protein_g", 0) = 40)
        => \E i \in DOMAIN call[p].result :
              /\ call[p].result[i].recommendation_type = "nutrient_adjustment"
              /\ \E j \in DOMAIN call[p].result[i].nutrient_adjustments :
                   LET a == call[p].result[i].nutrient_adjustments[j]
                   IN /\ a.nutrient_name = "protein_g"
                      /\ a.current_intake = 40
                      /\ a.recommended_intake = 100
                      /\ a.adjustment_amount = 60
                      /\ a.adjustment_direction = "increase"

\* C2: for every macro nutrient with target > 0 the analyzer's loop classifies
\* r = current/target as: r < 0.5 critical, direction increase;
\* 0.5 <= r < 0.8 high-priority deficit; 0.8 <= r <= 1.5 no adjustment;
\* r > 1.5 excess, direction decrease.
C2_GapClassification ==
    gap.ran =>
      \A n \in DOMAIN gap.macro_targets :
        LET t == gap.macro_targets[n]
            cur == Get(gap.current_intake, n, 0)
            hits == AdjustmentsFor(gap.nutrient_adjustments, n)
            One(direction, reason) ==
                /\ Cardinality(hits) = 1
                /\ \A i \in hits :
                     /\ gap.nutrient_adjustments[i].adjustment_direction = direction
                     /\ gap.nutrient_adjustments[i].reason = reason
        IN t > 0 =>
             /\ (2 * cur < t) =>
                   gap.severity[n] = "critical" /\ One("increase", "critically low")
             /\ (2 * cur >= t /\ 5 * cur < 4 * t) =>
                   gap.severity[n] = "high" /\ One("increase", "below target")
             /\ (5 * cur >= 4 * t /\ 2 * cur <= 3 * t) =>
                   gap.severity[n] = "none" /\ hits = {}
             /\ (2 * cur > 3 * t) =>
                   gap.severity[n] = "excess"
                   /\ One("decrease", "above recommended levels")

\* a run with a nutrient exactly at r = 0.5, flagged as a high-priority deficit
C2_Witness ==
    /\ gap.ran
    /\ \E n \in DOMAIN gap.macro_targets :
         /\ gap.macro_targets[n] > 0
         /\ 2 * Get(gap.current_intake, n, 0) = gap.macro_targets[n]
         /\ gap.severity[n] = "high"
         /\ AdjustmentsFor(gap.nutrient_adjustments, n) # {}

SortedByPriorityThenConfidence(list) ==
    \A i \in DOMAIN list : \A j \in DOMAIN list :
        i < j =>
          /\ list[i].priority <= list[j].priority
          /\ list[i].priority = list[j].priority
               => list[i].model_confidence >= list[j].model_confidence

\* C3: the list generate returns is sorted non-decreasing by priority and,
\* within equal priority, non-increasing by model_confidence.
C3_ResultSorted ==
    \A p \in Procs : Finished(p) => SortedByPriorityThenConfidence(call[p].result)

\* a returned list that the sub-generators did not produce in sorted order
C3_Witness ==
    \E p \in Procs :
        /\ call[p].outcome = "returned"
        /\ Len(call[p].result) >= 3
        /\ ~SortedByPriorityThenConfidence(call[p].recommendations)
        /\ \E i \in DOMAIN call[p].result : \E j \in DOMAIN call[p].result :
             /\ call[p].result[i].priority = call[p].result[j].priority
             /\ call[p].result[i].model_confidence # call[p].result[j].model_confidence

\* C4: the list generate returns has at most 10 elements, and they are the
\* first 10 of the ranked order of everything the sub-generators produced.
C4_TopTen ==
    \A p \in Procs :
        call[p].outcome = "returned" /\ call[p].raised_at = "none" =>
          LET ranked == SortRecommendations(call[p].recommendations)
          IN /\ Len(call[p].result) <= 10
             /\ Len(call[p].result) = Min2(10, Len(ranked))
             /\ \A i \in DOMAIN call[p].result : call[p].result[i] = ranked[i]

\* more than 10 recommendations were produced and 10 were returned
C4_Witness ==
    \E p \in Procs :
        /\ call[p].outcome = "returned"
        /\ Len(call[p].recommendations) > 10
        /\ Len(call[p].result) = 10

\* C5: generate never raises; when a step of the pass raises, it returns [].
C5_NeverRaises ==
    \A p \in Procs :
        /\ call[p].outcome # "raised"
        /\ call[p].raised_at # "none" =>
             call[p].outcome = "returned" /\ call[p].result = <<>>

\* a pass whose intake fetch raised, after the profile was found
C5_Witness ==
    \E p \in Procs :
        /\ call[p].raised_at = "intake"
        /\ call[p].nutrition_profile # Nothing
        /\ call[p].outcome = "returned"

\* C6: scenario B. For a user with a condition named "Type 2 Diabetes" and
\* fiber intake 10, the list generate returns includes a health_optimization
\* recommendation with a fiber_g adjustment recommending 30.
C6_ScenarioB ==
    \A p \in Procs :
        (/\ Finished(p)
         /\ CollaboratorsAnswered(p)
         /\ HasCondition(call[p].user[1], n_diabetes)
         /\ Get(call[p].current_intake[1], "fiber_g", 0) = 10)
        => \E i \in DOMAIN call[p].result :
              /\ call[p].result[i].recommendation_type = "health_optimization"
              /\ \E j \in DOMAIN call[p].result[i].nutrient_adjustments :
                   /\ call[p].result[i].nutrient_adjustments[j].nutrient_name = "fiber_g"
                   /\ call[p].result[i].nutrient_adjustments[j].recommended_intake = 30

NoFoodSuggestion(list) ==
    \A i \in DOMAIN list : list[i].recommendation_type # "food_suggestion"

C8_TargetFailureAbsorbed ==
    \A p \in Procs :
        (/\ Finished(p)
         /\ call[p].raised_at = "profile"
         /\ call[p].current_intake_arg # Nothing)
        => LET packs == _generate_health_optimization_recommendations(
                            call[p].user[1], call[p].current_intake_arg[1], now)
           IN \A i \in DOMAIN packs :
                 Len(packs) <= 10 =>
                   \E j \in DOMAIN call[p].result : call[p].result[j] = packs[i]

\* C9: after a generation pass of the endpoint has ended (with a response of
\* 200 or 500), either every recommendation returned by generate has been
\* stored or none has
C9_AllOrNothingStored ==
    \A p \in Procs :
        (call[p].kind = "endpoint" /\ call[p].pc = "done")
            => call[p].inserted \in {0, Len(call[p].result)}

\* a submission the specification calls invalid: rating outside 1..5 or a
\* text of more than 1000 characters
InvalidSubmission(c) ==
    \/ c.rating # Nothing /\ (c.rating[1] < 1 \/ c.rating[1] > 5)
    \/ c.feedback # Nothing /\ c.feedback[1] > 1000

\* C10: no step of a feedback request whose rating is outside 1..5 or whose
\* text is longer than 1000 characters changes the stored recommendations
\* (is_viewed, is_accepted, user_rating and user_feedback included)
C10_InvalidFeedbackChangesNothing ==
    [][\A p \in Procs :
          (/\ call[p].kind = "feedback"
           /\ InvalidSubmission(call[p])
           /\ call'[p] # call[p])
             => store' = store]_vars

\* the id names no stored recommendation, or one of another user
NotOwned(recommendation_id, user_id) ==
    \/ recommendation_id \notin DOMAIN store
    \/ store[recommendation_id].user_id # user_id

\* C11: ownership isolation. When the id does not exist or belongs to another
\* user, the lookup of a view or feedback request returns nothing, the request
\* ends as not found (record_feedback returns false, nothing is raised) and
\* the stored recommendations are unchanged; a lookup never hands out a
\* recommendation whose user_id differs from the requested user_id.
C11_OwnershipIsolation ==
    [][\A p \in Procs :
          (/\ call[p].kind \in {"feedback", "view"}
           /\ call[p].pc = "get"
           /\ call'[p] # call[p])
          => /\ call'[p].doc # Nothing
                  => call'[p].doc[1].user_id = call[p].user[1].id
             /\ NotOwned(call[p].rec_id, call[p].user[1].id)
                  => /\ call'[p].doc = Nothing
                     /\ call'[p].pc = "done"
                     /\ call'[p].response = NOT_FOUND
                     /\ call'[p].raised_at = "none"
                     /\ store' = store]_vars

\* a feedback request for a stored recommendation of another user has ended
\* as not found
C11_Witness ==
    \E p \in Procs :
        /\ call[p].kind = "feedback"
        /\ call[p].pc = "done"
        /\ call[p].response = NOT_FOUND
        /\ call[p].rec_id \in DOMAIN store
        /\ store[call[p].rec_id].user_id # call[p].user[1].id

\* step of p that applies deactivate_stale(user_id, days): the call on its
\* own, or the first step of a generation pass
DeactivatesFor(p, user_id, days) ==
    /\ call'[p].user = Some(CHOOSE u \in ServiceUsers : u.id = user_id)
    /\ \/ /\ call[p].pc = "idle"
          /\ call'[p].kind = "deactivate_stale"
          /\ call'[p].raised_at = "none"
          /\ call'[p].days = days
       \/ /\ call[p].pc = "deactivate" /\ call'[p].pc = "profile"
          /\ days = days_old

\* C12: deactivate_stale(user_id, days_old) leaves every recommendation of the
\* user that was active and created before now - days_old inactive, leaves an
\* already inactive recommendation as it was, and applying it again to the
\* resulting state changes nothing.
C12_DeactivateStale ==
    [][\A p \in Procs : \A u \in ServiceUsers : \A d \in DaysOld :
          DeactivatesFor(p, u.id, d)
          => /\ DOMAIN store' = DOMAIN store
             /\ \A i \in DOMAIN store :
                  /\ (/\ store[i].user_id = u.id
                      /\ store[i].is_active
                      /\ store[i].created_at < now - d) => ~store'[i].is_active
                  /\ ~store[i].is_active => store'[i] = store[i]
             /\ DeactivateOld(store', u.id, d, now) = store']_vars

\* deactivate_stale has run for a user who had an active recommendation older
\* than the cutoff and an inactive one; the first is inactive now
C12_Witness ==
    \E p \in Procs :
        /\ call[p].kind = "deactivate_stale"
        /\ call[p].pc = "done"
        /\ call[p].raised_at = "none"
        /\ \E i \in DOMAIN call[p].seen : \E j \in DOMAIN call[p].seen :
             /\ call[p].seen[i].user_id = call[p].user[1].id
             /\ call[p].seen[i].is_active
             /\ call[p].seen[i].created_at < now - call[p].days
             /\ ~store[i].is_active
             /\ call[p].seen[j].user_id = call[p].user[1].id
             /\ ~call[p].seen[j].is_active
             /\ store[j] = call[p].seen[j]

\* C13: deactivation is one-way and nothing is deleted: no step of any
\* operation makes an inactive stored recommendation active again, and no
\* step removes a stored recommendation.
C13_DeactivationOneWay ==
    [][/\ Len(store') >= Len(store)
       /\ \A i \in DOMAIN store :
            ~store[i].is_active => ~store'[i].is_active]_vars

\* C14: list_for_user(user_id, active_only, limit) returns only
\* recommendations of user_id, only active ones when active_only is true, at
\* most limit of them, sorted by priority ascending and created_at descending
\* within equal priority, and they are the first limit elements of that order.
C14_ListForUser ==
    \A p \in Procs :
        (call[p].kind = "list" /\ call[p].raised_at = "none") =>
          LET c == call[p]
              docs == c.seen
              matching == Matching(docs, c.user[1].id, c.active_only)
              returned == {c.listed[i] : i \in DOMAIN c.listed}
          IN /\ returned \subseteq DOMAIN docs
             /\ \A i \in returned :
                  /\ docs[i].user_id = c.user[1].id
                  /\ c.active_only => docs[i].is_active
             /\ Len(c.listed) <= c.limit
             /\ Len(c.listed) = Min2(c.limit, Cardinality(matching))
             /\ Cardinality(returned) = Len(c.listed)
             /\ \A i \in DOMAIN c.listed : \A j \in DOMAIN c.listed :
                  i < j =>
                    /\ docs[c.listed[i]].priority <= docs[c.listed[j]].priority
                    /\ docs[c.listed[i]].priority = docs[c.listed[j]].priority
                         => docs[c.listed[i]].created_at >= docs[c.listed[j]].created_at
             /\ \A m \in matching \ returned : \A r \in returned :
                  /\ docs[r].priority <= docs[m].priority
                  /\ docs[r].priority = docs[m].priority
                       => docs[r].created_at >= docs[m].created_at

\* a listing cut by the limit, out of documents of both users, some inactive,
\* where stored order and sorted order differ
C14_Witness ==
    \E p \in Procs :
        /\ call[p].kind = "list" /\ call[p].raised_at = "none"
        /\ call[p].active_only
        /\ Len(call[p].listed) = 2 /\ call[p].limit = 2
        /\ Cardinality(Matching(call[p].seen, call[p].user[1].id, TRUE)) > 2
        /\ call[p].listed[1] > call[p].listed[2]
        /\ \E i \in DOMAIN call[p].seen :
             call[p].seen[i].user_id = call[p].user[1].id /\ ~call[p].seen[i].is_active

\* sum of the counts of a by-type dictionary
RECURSIVE SumCounts(_, _)
SumCounts(by_type, types) ==
    IF types = {} THEN 0
    ELSE LET t == CHOOSE x \in types : TRUE
         IN by_type[t] + SumCounts(by_type, types \ {t})

\* C15: the report of get_stats(user_id) is consistent: the counts grouped by
\* recommendation_type sum to the total count, the active count and the
\* accepted count are at most the total, and the recent list holds the 5
\* most recent of the user's recommendations (all of them when fewer).
C15_StatsConsistent ==
    \A p \in Procs :
        (call[p].kind = "stats" /\ call[p].pc = "done" /\ call[p].raised_at = "none") =>
          LET r == call[p].stats
          IN /\ r.active_recommendations <= r.total_recommendations
             /\ r.accepted_recommendations <= r.total_recommendations
             /\ SumCounts(r.recommendations_by_type, DOMAIN r.recommendations_by_type)
                  = r.total_recommendations
             /\ Len(r.recent_recommendations) = Min2(5, r.total_recommendations)

\* the allergy names the group or is named by it: the lowered allergy occurs
\* in the group's name, or a keyword of the group occurs in the lowered allergy
NamesGroup(allergy, g) ==
    \/ Contains(common_allergens[g].allergen_group, Lower(allergy))
    \/ \E k \in DOMAIN common_allergens[g].keywords :
          Contains(Lower(allergy), common_allergens[g].keywords[k])

\* a keyword of the group occurs, case-insensitively, in the suggestion's
\* name or in the name of one of its ingredients
KeywordOccurs(suggestion, g) ==
    \E k \in DOMAIN common_allergens[g].keywords :
        \/ Contains(Lower(Get(suggestion, "name", <<>>)), common_allergens[g].keywords[k])
        \/ \E i \in DOMAIN Get(suggestion, "ingredients", <<>>) :
              Contains(Lower(Get(Get(suggestion, "ingredients", <<>>)[i], "name", <<>>)),
                       common_allergens[g].keywords[k])

Warned(warnings, text) == \E i \in DOMAIN warnings : warnings[i] = text

\* C16: allergen screening. For an allergy that names, or is named by, an
\* allergen group and a suggestion whose name or ingredient text contains,
\* case-insensitively, a keyword of the group the warnings contain
\* "May contain <group>" (allergy "peanut" and "Peanut butter toast" give
\* "May contain peanuts"); and every warning is "May contain <group>" for a
\* group with a keyword in the suggestion text.
C16_AllergenScreening ==
    (probe.ran /\ probe.fn = "_check_allergens") =>
      /\ \A g \in DOMAIN common_allergens :
           ((\E a \in DOMAIN probe.user_allergies : NamesGroup(probe.user_allergies[a], g))
            /\ KeywordOccurs(probe.suggestion, g))
             => Warned(probe.warnings, MayContain(common_allergens[g].allergen_group))
      /\ \A i \in DOMAIN probe.warnings :
           \E g \in DOMAIN common_allergens :
              /\ probe.warnings[i] = MayContain(common_allergens[g].allergen_group)
              /\ KeywordOccurs(probe.suggestion, g)
      /\ (/\ Warned(probe.user_allergies, <<"p","e","a","n","u","t">>)
          /\ Get(probe.suggestion, "name", <<>>) = <<"P","e","a","n","u","t"," ","b","u","t","t","e","r"," ","t","o","a","s","t">>)
           => Warned(probe.warnings, <<"M","a","y"," ","c","o","n","t","a","i","n"," ","p","e","a","n","u","t","s">>)

\* allergy "peanut" and the suggestion "Peanut butter toast" were screened
C16_Witness ==
    /\ probe.ran /\ probe.fn = "_check_allergens"
    /\ Warned(probe.user_allergies, <<"p","e","a","n","u","t">>)
    /\ Get(probe.suggestion, "name", <<>>) = <<"P","e","a","n","u","t"," ","b","u","t","t","e","r"," ","t","o","a","s","t">>
    /\ Warned(probe.warnings, <<"M","a","y"," ","c","o","n","t","a","i","n"," ","p","e","a","n","u","t","s">>)

\* C17: a macro nutrient whose target is <= 0 is skipped by the gap analyzer:
\* no NutrientAdjustment is emitted for it, whatever the current intake.
C17_ZeroTargetSkipped ==
    gap.ran =>
      \A n \in DOMAIN gap.macro_targets :
        gap.macro_targets[n] <= 0
          => AdjustmentsFor(gap.nutrient_adjustments, n) = {}

\* C18: when the gap analyzer produces at least one adjustment it emits
\* exactly one nutrient_adjustment Recommendation, of priority 1 if an
\* adjustment has a critical reason and 3 otherwise, and of expected_impact
\* high if a reason contains "critical" and medium otherwise; with no
\* adjustment it emits nothing.
C18_GapRecommendation ==
    gap.ran =>
      LET critical == \E i \in DOMAIN gap.nutrient_adjustments :
                         ReasonHasCritical(gap.nutrient_adjustments[i].reason)
      IN /\ gap.nutrient_adjustments = <<>> => gap.recommendations = <<>>
         /\ gap.nutrient_adjustments # <<>> =>
              /\ ~gap.raised
              /\ Len(gap.recommendations) = 1
              /\ gap.recommendations[1].recommendation_type = "nutrient_adjustment"
              /\ gap.recommendations[1].nutrient_adjustments = gap.nutrient_adjustments
              /\ gap.recommendations[1].priority = (IF critical THEN 1 ELSE 3)
              /\ gap.recommendations[1].expected_impact
                   = (IF critical THEN "high" ELSE "medium")

\* the threshold checks of each rule pack as the table states them
PackTable ==
    [_diabetes_recommendations |->
         <<[nutrient |-> "fiber_g", below |-> TRUE, threshold |-> 25,
            direction |-> "increase", recommended |-> 30]>>,
     _heart_health_recommendations |->
         <<[nutrient |-> "fiber_g", below |-> TRUE, threshold |-> 25,
            direction |-> "increase", recommended |-> 30]>>,
     _hypertension_recommendations |->
         <<[nutrient |-> "sodium_mg", below |-> FALSE, threshold |-> 2300,
            direction |-> "decrease", recommended |-> 1500],
           [nutrient |-> "potassium_mg", below |-> TRUE, threshold |-> 3500,
            direction |-> "increase", recommended |-> 4700]>>,
     _anemia_recommendations |->
         <<[nutrient |-> "iron_mg", below |-> TRUE, threshold |-> 15,
            direction |-> "increase", recommended |-> 18],
           [nutrient |-> "vitamin_c_mg", below |-> TRUE, threshold |-> 75,
            direction |-> "increase", recommended |-> 90]>>,
     _bone_health_recommendations |->
         <<[nutrient |-> "calcium_mg", below |-> TRUE, threshold |-> 1000,
            direction |-> "increase", recommended |-> 1200],
           [nutrient |-> "vitamin_d_mcg", below |-> TRUE, threshold |-> 15,
            direction |-> "increase", recommended |-> 20]>>]

CheckHolds(row, current_intake) ==
    LET current == Get(current_intake, row.nutrient, 0)
    IN IF row.below THEN current < row.threshold ELSE current > row.threshold

Distance(a, b) == IF a >= b THEN a - b ELSE b - a

IsPackRun == probe.ran /\ probe.fn \in DOMAIN PackTable

\* C19: a rule pack emits one health_optimization recommendation of priority 2
\* exactly when at least one of its threshold checks holds, and nothing
\* otherwise; the recommendation carries exactly the adjustments whose check
\* holds, in the table's order, each with the table's direction and
\* recommended intake and with adjustment_amount = |recommended - current|;
\* a value equal to its threshold triggers nothing.
C19_RulePacks ==
    IsPackRun =>
        LET rows == PackTable[probe.fn]
            holding == SelectSeq(rows, LAMBDA row : CheckHolds(row, probe.current_intake))
            recs == probe.recommendations
        IN IF holding = <<>> THEN recs = <<>>
           ELSE /\ Len(recs) = 1
                /\ recs[1].recommendation_type = "health_optimization"
                /\ recs[1].priority = 2
                /\ Len(recs[1].nutrient_adjustments) = Len(holding)
                /\ \A i \in DOMAIN holding :
                      LET a == recs[1].nutrient_adjustments[i]
                          current == Get(probe.current_intake, holding[i].nutrient, 0)
                      IN /\ a.nutrient_name = holding[i].nutrient
                         /\ a.current_intake = current
                         /\ a.adjustment_direction = holding[i].direction
                         /\ a.recommended_intake = holding[i].recommended
                         /\ a.adjustment_amount
                              = Distance(holding[i].recommended, current)

\* the anemia pack ran with iron on its threshold and vitamin C below its
\* own: one recommendation holding the vitamin C adjustment alone
C19_Witness ==
    /\ IsPackRun
    /\ probe.fn = "_anemia_recommendations"
    /\ Get(probe.current_intake, "iron_mg", 0) = 15
    /\ Get(probe.current_intake, "vitamin_c_mg", 0) = 74
    /\ Len(probe.recommendations) = 1
    /\ Len(probe.recommendations[1].nutrient_adjustments) = 1
    /\ probe.recommendations[1].nutrient_adjustments[1].adjustment_amount = 16

\* current intake of a trigger nutrient strictly below 80% of its target
StrictlyBelow80(nutrient) ==
    100 * Get(food.current_intake, nutrient, 0) < 80 * food.macro_targets[nutrient]

\* C20: the food suggestion orchestrator calls the external generator if and
\* only if protein_g or fiber_g has current intake strictly below 80% of its
\* target; when neither qualifies there is no generator call and no
\* recommendation; an intake exactly at 80% of the target does not qualify.
C20_FoodTrigger ==
    food.ran =>
        /\ food.called <=> (StrictlyBelow80("protein_g") \/ StrictlyBelow80("fiber_g"))
        /\ (~StrictlyBelow80("protein_g") /\ ~StrictlyBelow80("fiber_g"))
              => (~food.called /\ food.recommendations = <<>>)

\* protein exactly at 80% of its target and fiber above 80% of its own:
\* the generator was not called and nothing was produced
C20_Witness ==
    /\ food.ran
    /\ "protein_g" \in DOMAIN food.current_intake
    /\ 100 * food.current_intake.protein_g = 80 * food.macro_targets.protein_g
    /\ food.macro_targets.protein_g > 0
    /\ ~StrictlyBelow80("fiber_g")
    /\ ~food.called
    /\ food.recommendations = <<>>

\* max(0, target - current) * 0.30, in tenths
Remaining30(nutrient) ==
    LET target == food.macro_targets[nutrient]
        current == Get(food.current_intake, nutrient, 0)
    IN IF target > current THEN 3 * (target - current) ELSE 0

\* C21: the request sent to the external generator carries the user summary,
\* the four remaining-nutrient targets max(0, target - current) * 0.30 (never
\* negative, 0 when the intake meets the target), the dietary restriction
\* types, the allergy list of the user and the meal type.
C21_GeneratorRequest ==
    (food.ran /\ food.called) =>
        LET request == food.request[1]
        IN /\ request.user_profile.age = food.user.age
           /\ request.user_profile.gender = food.user.gender
           /\ request.user_profile.activity_level = food.user.activity_level
           /\ request.user_profile.primary_goal = food.user.primary_goal
           /\ Len(request.user_profile.health_conditions)
                = Len(food.user.health_conditions)
           /\ \A n \in {"calories", "protein_g", "carbs_g", "fat_g"} :
                 /\ request.nutrition_targets[n] = Remaining30(n)
                 /\ request.nutrition_targets[n] >= 0
           /\ Len(request.dietary_restrictions) = Len(food.user.dietary_restrictions)
           /\ \A i \in DOMAIN request.dietary_restrictions :
                 request.dietary_restrictions[i] = food.user.dietary_restrictions[i].type
           /\ request.meal_type
                = (IF food.meal_type # None THEN food.meal_type
                   ELSE _determine_next_meal(food.current_hour))
           /\ \/ /\ "allergies" \in DOMAIN request
                 /\ request.allergies = food.user.allergies
              \/ /\ "allergies" \in DOMAIN request.user_profile
                 /\ request.user_profile.allergies = food.user.allergies

\* the generator was asked for a user allergic to peanuts and the request
\* names the allergy nowhere
C21_RequestWithoutAllergies ==
    /\ food.ran /\ food.called
    /\ food.user.allergies # <<>>
    /\ "allergies" \notin DOMAIN food.request[1]
    /\ "allergies" \notin DOMAIN food.request[1].user_profile

\* the parts of C21 that the request does carry: the summary, the four
\* remaining targets, the restriction types and the meal type
C21_RequestOtherFields ==
    (food.ran /\ food.called) =>
        LET request == food.request[1]
        IN /\ request.user_profile.age = food.user.age
           /\ \A n \in {"calories", "protein_g", "carbs_g", "fat_g"} :
                 /\ request.nutrition_targets[n] = Remaining30(n)
                 /\ request.nutrition_targets[n] >= 0
           /\ \A i \in DOMAIN request.dietary_restrictions :
                 request.dietary_restrictions[i] = food.user.dietary_restrictions[i].type

\* the meal of an hour of the day as the bands state it
MealOfHour(h) ==
    CASE h \in 5..10 -> "breakfast"
      [] h \in 11..14 -> "lunch"
      [] h \in 15..17 -> "snack"
      [] h \in (18..23) \cup (0..4) -> "dinner"

\* C22: the meal type of the food suggestions is the caller's meal_type when
\* one is given; otherwise it is decided by the current hour alone:
\* 5..10 breakfast, 11..14 lunch, 15..17 snack, 18..23 and 0..4 dinner.
C22_MealType ==
    (food.ran /\ food.called) =>
        LET expected == IF food.meal_type # None THEN food.meal_type
                        ELSE MealOfHour(food.current_hour)
        IN /\ food.request[1].meal_type = expected
           /\ \A r \in DOMAIN food.recommendations :
                 \A i \in DOMAIN food.recommendations[r].food_suggestions :
                    food.recommendations[r].food_suggestions[i].meal_type = expected

\* no meal type given at 18:00: suggestions for dinner came back
C22_Witness ==
    /\ food.ran /\ food.called
    /\ food.meal_type = None
    /\ food.current_hour = 18
    /\ food.request[1].meal_type = "dinner"
    /\ food.recommendations # <<>>
    /\ food.recommendations[1].food_suggestions[1].meal_type = "dinner"

\* a meal type given by the caller at an hour of another band is kept
C22_WitnessGiven ==
    /\ food.ran /\ food.called
    /\ food.meal_type = "lunch"
    /\ MealOfHour(food.current_hour) # "lunch"
    /\ food.request[1].meal_type = "lunch"

IsMealPlanRun == probe.ran /\ probe.fn = "_generate_meal_plan_recommendations"

\* the slots of the profile's meal_distribution
MealSlots == 1..Len(probe.nutrition_profile.meal_distribution)

\* slot i produced a suggestion: the generator answered with a non-empty list
Produced(i) == ~probe.replies[i].raises /\ probe.replies[i].value # <<>>

\* the builder is due: the log query answered with fewer than 5 items
MealPlanDue == ~probe.recent_logs.raises /\ probe.recent_logs.value < 5

\* what C23 says of one run of the builder
MealPlanAsSpecified ==
    /\ ~MealPlanDue => (probe.calls = 0 /\ probe.recommendations = <<>>)
    /\ MealPlanDue =>
          /\ probe.calls = Len(probe.nutrition_profile.meal_distribution)
          /\ IF \E i \in MealSlots : Produced(i)
             THEN /\ Len(probe.recommendations) = 1
                  /\ probe.recommendations[1].recommendation_type = "meal_plan"
                  /\ LET plan == probe.recommendations[1].meal_plan[1]
                         targets == probe.nutrition_profile.macro_targets
                     IN /\ DOMAIN plan.meals
                             = {probe.nutrition_profile.meal_distribution[i].meal_type :
                                   i \in {j \in MealSlots : Produced(j)}}
                        /\ \A m \in DOMAIN plan.meals : Len(plan.meals[m]) = 1
                        /\ plan.total_calories = targets.calories
                        /\ plan.total_protein_g = targets.protein_g
                        /\ plan.total_carbs_g = targets.carbs_g
                        /\ plan.total_fat_g = targets.fat_g
                        /\ plan.total_fiber_g = targets.fiber_g
             ELSE probe.recommendations = <<>>

\* C23: the meal plan builder runs only with fewer than 5 logged items in the
\* trailing 3 days (5 does not trigger it); when it runs it calls the
\* generator once per slot of meal_distribution, keeps at most one suggestion
\* per slot and emits one meal_plan recommendation if a slot produced a
\* suggestion and nothing otherwise; the meals hold only the slots that
\* produced a suggestion and the totals are the full-day macro targets.
C23_MealPlanBuilder == IsMealPlanRun => MealPlanAsSpecified

\* C23 for the runs in which the generator answers every slot it is asked
C23_WhenGeneratorAnswers ==
    (IsMealPlanRun /\ \A i \in MealSlots : ~probe.replies[i].raises)
        => MealPlanAsSpecified

\* exactly 5 logged items: no generator call, no plan
C23_WitnessFiveLogs ==
    /\ IsMealPlanRun
    /\ ~probe.recent_logs.raises /\ probe.recent_logs.value = 5
    /\ \A i \in MealSlots : Produced(i)
    /\ probe.calls = 0 /\ probe.recommendations = <<>>

\* 4 logged items, two of four slots answered with suggestions: one plan
\* with those two meals
C23_WitnessPlan ==
    /\ IsMealPlanRun
    /\ ~probe.recent_logs.raises /\ probe.recent_logs.value = 4
    /\ \A i \in MealSlots : ~probe.replies[i].raises
    /\ Cardinality({i \in MealSlots : Produced(i)}) = 2
    /\ Len(probe.nutrition_profile.meal_distribution) = 4
    /\ Len(probe.recommendations) = 1
    /\ Cardinality(DOMAIN probe.recommendations[1].meal_plan[1].meals) = 2

\* the replies with every failure replaced by an empty list
FailuresAsEmpty(replies) ==
    [i \in DOMAIN replies |-> IF replies[i].raises THEN Reply(<<>>) ELSE replies[i]]

\* C24: a failure of the generator for one meal slot counts as an empty list
\* for that slot only: the outcome is the one the builder gives when the
\* generator returns an empty list for that slot, so the suggestions of the
\* other slots still come back in a meal_plan recommendation.
C24_SlotFailureIsEmpty ==
    IsMealPlanRun =>
        probe.recommendations
          = _generate_meal_plan_recommendations(probe.user, probe.nutrition_profile,
                probe.recent_logs, FailuresAsEmpty(probe.replies), now).recommendations

\* the first slot produced a suggestion, a later one failed, and the builder
\* returned nothing
C24_SuggestionLost ==
    /\ IsMealPlanRun /\ MealPlanDue
    /\ Produced(1)
    /\ \E i \in MealSlots : probe.replies[i].raises
    /\ probe.recommendations = <<>>

\* request p is a generation pass of the endpoint
IsPass(c) == c.kind = "endpoint"

\* C25: a generation pass deactivates the stale recommendations of the user
\* first and stores the new ones afterwards, in separate steps: the
\* deactivation step stores nothing and leaves the pass unfinished, and every
\* recommendation a pass stores is stored by a later step of the same pass,
\* one document at a time.  Between the two, the user can be left with no
\* active recommendation (C25_Witness), and the steps of two passes of one
\* user can interleave (C25_WitnessInterleaved).
C25_DeactivateThenStore ==
    [][\A p \in Procs :
          /\ (IsPass(call[p]) /\ call[p].pc = "deactivate" /\ call'[p].pc # "deactivate")
                => /\ Len(store') = Len(store)
                   /\ call'[p].pc = "profile"
                   /\ call'[p].inserted = 0
                   /\ \A i \in DOMAIN store :
                         (/\ store[i].user_id = call[p].user[1].id
                          /\ store[i].created_at < now - days_old)
                            => ~store'[i].is_active
          /\ (IsPass(call[p]) /\ IsPass(call'[p]) /\ call'[p].inserted # call[p].inserted)
                => /\ call[p].pc = "insert"
                   /\ call'[p].inserted = call[p].inserted + 1
                   /\ Len(store') = Len(store) + 1
                   /\ store'[Len(store')].user_id = call[p].user[1].id
                   /\ store'[Len(store')].is_active
                   /\ \A i \in DOMAIN store : store'[i] = store[i]]_vars

\* only a pass of u1 and a listing of u1's active recommendations ever ran:
\* the listing saw the collection after the deactivation and before the first
\* insert and came back empty, although u1 had an active recommendation when
\* the pass began and has active ones now that it has stored its results
C25_Witness ==
    \E p \in Procs, q \in Procs :
        /\ requests = 2
        /\ IsPass(call[p]) /\ call[p].user = Some(u1)
        /\ call[p].pc = "done" /\ call[p].inserted > 0
        /\ call[q].kind = "list" /\ call[q].user = Some(u1) /\ call[q].active_only
        /\ call[q].raised_at = "none"
        /\ call[q].listed = <<>>
        /\ Len(call[q].seen) = Len(store) - call[p].inserted
        /\ \E i \in DOMAIN call[q].seen :
              call[q].seen[i].user_id = "u1" /\ call[q].seen[i].recommendation_type # "meal_plan"
        /\ \E i \in DOMAIN store : store[i].user_id = "u1" /\ store[i].is_active

\* two passes of u1: one has stored the first of its recommendations and not
\* yet the last, the other has its deactivation still to run
C25_WitnessInterleaved ==
    \E p \in Procs, q \in Procs :
        /\ p # q
        /\ IsPass(call[p]) /\ IsPass(call[q])
        /\ call[p].user = Some(u1) /\ call[q].user = Some(u1)
        /\ call[p].pc = "insert"
        /\ call[p].inserted > 0 /\ call[p].inserted < Len(call[p].result)
        /\ call[q].pc = "deactivate"

\* request p is a feedback submission whose save is being applied in this step
FeedbackApplied(p) ==
    /\ call[p].kind = "feedback" /\ call[p].pc = "save"
    /\ call'[p].pc = "done" /\ call'[p].response = OK

\* what C26 says of the step that applies the feedback of request p, against
\* the collection as it stands when the save is applied
FeedbackFrame(p) ==
    LET c == call[p]
        old == store[c.rec_id]
        new == store'[c.rec_id]
    IN /\ Len(store') = Len(store)
       /\ \A i \in DOMAIN store : i # c.rec_id => store'[i] = store[i]
       /\ new.is_viewed
       /\ new.is_accepted = c.is_accepted
       /\ new.user_rating = (IF c.rating # Nothing THEN c.rating ELSE old.user_rating)
       /\ new.user_feedback
            = (IF c.feedback # Nothing THEN c.feedback ELSE old.user_feedback)
       /\ new = [old EXCEPT !.is_viewed = new.is_viewed,
                            !.is_accepted = new.is_accepted,
                            !.user_rating = new.user_rating,
                            !.user_feedback = new.user_feedback]

\* C26: a successful record_feedback on a recommendation of the user sets
\* is_viewed, sets is_accepted to the given value, sets user_rating and
\* user_feedback only when given (otherwise the stored value stays), changes
\* no other field of that recommendation (not is_active, not priority) and
\* no other recommendation, and reports success; equally on an inactive one.
C26_FeedbackFrame ==
    [][\A p \in Procs : FeedbackApplied(p) => FeedbackFrame(p)]_vars

\* C26 for a submission that is the only request that ever ran
C26_FrameWhenAlone ==
    [][\A p \in Procs : (FeedbackApplied(p) /\ requests = 1) => FeedbackFrame(p)]_vars

\* feedback without rating and text was applied, alone, to the inactive
\* recommendation of u1: its rating stayed and it is still inactive
C26_WitnessInactive ==
    \E p \in Procs :
        /\ requests = 1
        /\ call[p].kind = "feedback" /\ call[p].pc = "done" /\ call[p].response = OK
        /\ call[p].rating = Nothing /\ call[p].feedback = Nothing
        /\ ~call[p].is_accepted
        /\ ~store[call[p].rec_id].is_active
        /\ ~store[call[p].rec_id].is_accepted
        /\ store[call[p].rec_id].user_rating = Some(4)

\* every accepted recommendation has been viewed
AcceptedImpliesViewed ==
    \A i \in DOMAIN store : store[i].is_accepted => store[i].is_viewed

\* is_viewed, once true, stays true
ViewedStays ==
    \A i \in DOMAIN store : store[i].is_viewed => store'[i].is_viewed

\* user_rating, once set, is never null again
RatingStays ==
    \A i \in DOMAIN store : store[i].user_rating # Nothing => store'[i].user_rating # Nothing

\* C27: in every state reached by generation passes, views, feedback
\* submissions and deactivate_stale calls, a stored recommendation with
\* is_accepted true has is_viewed true; is_viewed, once true, never becomes
\* false again; user_rating, once set, never becomes null again.
C27_FeedbackMonotone ==
    [][AcceptedImpliesViewed /\ AcceptedImpliesViewed' /\ ViewedStays /\ RatingStays]_vars

\* the first two parts of C27: accepted implies viewed, and viewed stays
C27_ViewedParts ==
    [][AcceptedImpliesViewed /\ AcceptedImpliesViewed' /\ ViewedStays]_vars

\* a rated recommendation whose view or unrated feedback, loaded before the
\* rating was stored, is about to be saved over it
C27_RatingAboutToBeLost ==
    \E p \in Procs :
        /\ call[p].pc = "save"
        /\ call[p].rec_id \in DOMAIN store
        /\ store[call[p].rec_id].user_rating # Nothing
        /\ call[p].doc[1].user_rating = Nothing

IsDispatchRun ==
    probe.ran /\ probe.fn = "_generate_health_optimization_recommendations"

\* the keywords in their order of precedence, each with its rule pack
Precedence ==
    <<[keywords |-> {kw_diabetes}, pack |-> "_diabetes_recommendations"],
      [keywords |-> {kw_hypertension, kw_blood_pressure},
       pack |-> "_hypertension_recommendations"],
      [keywords |-> {kw_heart, kw_cardiovascular},
       pack |-> "_heart_health_recommendations"],
      [keywords |-> {kw_anemia}, pack |-> "_anemia_recommendations"],
      [keywords |-> {kw_osteoporosis}, pack |-> "_bone_health_recommendations"]>>

\* row r of the precedence matches the name: case-insensitive substring
RowMatches(r, name) ==
    \E k \in Precedence[r].keywords : Contains(Lower(name), k)

\* what one entry contributes: the result of the first matching pack
EntryResult(name) ==
    IF \E r \in DOMAIN Precedence : RowMatches(r, name)
    THEN LET first == CHOOSE r \in DOMAIN Precedence :
                         /\ RowMatches(r, name)
                         /\ \A q \in 1..(r - 1) : ~RowMatches(q, name)
         IN PackResult(Precedence[first].pack, probe.user, probe.current_intake, now)
    ELSE <<>>

RECURSIVE EntriesResult(_)
EntriesResult(i) ==
    IF i > Len(probe.user.health_conditions) THEN <<>>
    ELSE EntryResult(probe.user.health_conditions[i].name) \o EntriesResult(i + 1)

\* C28: dispatch goes entry by entry through health_conditions in list
\* order; each entry runs at most one rule pack, the first in the precedence
\* diabetes, hypertension/blood pressure, heart/cardiovascular, anemia,
\* osteoporosis whose keyword occurs in the name regardless of case; an entry
\* matching none runs nothing, and two entries matching the same keyword run
\* the pack twice.
C28_Dispatch ==
    IsDispatchRun => probe.recommendations = EntriesResult(1)

\* two entries that both name diabetes: the same recommendation twice
C28_Witness ==
    /\ IsDispatchRun
    /\ Len(probe.user.health_conditions) = 2
    /\ probe.user.health_conditions[1].name # probe.user.health_conditions[2].name
    /\ \A i \in 1..2 : RowMatches(1, probe.user.health_conditions[i].name)
    /\ Len(probe.recommendations) = 2
    /\ probe.recommendations[1] = probe.recommendations[2]
    /\ probe.recommendations[1].recommendation_type = "health_optimization"

\* generate has returned a list whose first two entries are the same
\* health_optimization recommendation
C28_WitnessGenerate ==
    \E p \in Procs :
        /\ call[p].outcome = "returned"
        /\ Len(call[p].result) >= 2
        /\ call[p].result[1] = call[p].result[2]
        /\ call[p].result[1].recommendation_type = "health_optimization"

\* an entry naming anemia and heart, in that order in the text, ran the
\* heart pack alone
C28_WitnessFirstKeyword ==
    /\ IsDispatchRun
    /\ Len(probe.user.health_conditions) = 1
    /\ RowMatches(3, probe.user.health_conditions[1].name)
    /\ RowMatches(4, probe.user.health_conditions[1].name)
    /\ Len(probe.recommendations) = 1
    /\ probe.recommendations[1].title = "Heart Health Optimization"

ProfilesOf(stored, user_id) == {i \in DOMAIN stored : stored[i].user_id = user_id}

\* a stored profile is never modified or removed
ProfilesKept ==
    /\ Len(profiles') >= Len(profiles)
    /\ \A i \in DOMAIN profiles : profiles'[i] = profiles[i]

\* C29: lazy profile creation keeps at most one NutritionProfile per user:
\* generate stores a profile only when the user has none and never modifies a
\* stored one, and after any interleaving of generate calls of one user,
\* two concurrent calls that both find no profile included, exactly one
\* NutritionProfile is stored for that user.
C29_OneProfilePerUser ==
    [][/\ ProfilesKept
       /\ \A u \in ServiceUsers : Cardinality(ProfilesOf(profiles', u.id)) <= 1]_vars

\* the part of C29 that holds: stored profiles are never modified
C29_ProfilesKept == [][ProfilesKept]_vars

\* two passes of u1 have both stored a profile for u1
C29_TwoProfiles ==
    /\ Cardinality(ProfilesOf(profiles, "u1")) = 2
    /\ \A p \in Procs : IsPass(call[p]) /\ call[p].user = Some(u1)

\* C30: deactivate_stale(user_id, days_old) changes only is_active, and only
\* of recommendations of user_id that are active and older than the cutoff:
\* recommendations of other users, recommendations created at or after the
\* cutoff and every other field stay as they are; so the active
\* recommendations younger than the cutoff survive a generation pass and
\* stay active next to the newly stored ones.
C30_DeactivateFrame ==
    [][\A p \in Procs : \A u \in ServiceUsers : \A d \in DaysOld :
          DeactivatesFor(p, u.id, d)
          => /\ Len(store') = Len(store)
             /\ \A i \in DOMAIN store :
                  /\ store'[i] = [store[i] EXCEPT !.is_active = store'[i].is_active]
                  /\ store'[i].is_active # store[i].is_active
                       => /\ store[i].user_id = u.id
                          /\ store[i].is_active
                          /\ store[i].created_at < now - d
                  /\ (store[i].user_id # u.id \/ store[i].created_at >= now - d)
                       => store'[i] = store[i]]_vars

\* deactivate_stale ran for u1 with the cutoff at the creation time of an
\* active recommendation of u1, which is still active, while an older one
\* is inactive now
C30_Witness ==
    \E p \in Procs :
        /\ call[p].kind = "deactivate_stale" /\ call[p].pc = "done"
        /\ call[p].raised_at = "none"
        /\ call[p].user = Some(u1)
        /\ \E i \in DOMAIN store :
              /\ store[i].user_id = "u1" /\ store[i].is_active
              /\ store[i].created_at = now - call[p].days
        /\ \E i \in DOMAIN store :
              /\ store[i].user_id = "u1" /\ ~store[i].is_active
              /\ call[p].seen[i].is_active

\* a pass of u1, the only request that ran, has stored its recommendations:
\* the recommendation of u1 younger than the cutoff is still active next to
\* the new ones, the one older than the cutoff is inactive
C30_WitnessSurvivor ==
    \E p \in Procs :
        /\ requests = 1
        /\ IsPass(call[p]) /\ call[p].user = Some(u1) /\ call[p].pc = "done"
        /\ call[p].inserted > 0
        /\ \E i \in DOMAIN store :
              /\ store[i].user_id = "u1" /\ store[i].is_active
              /\ store[i].created_at < now /\ store[i].created_at >= now - days_old
        /\ \E i \in DOMAIN store :
              store[i].user_id = "u1" /\ store[i].is_active /\ store[i].created_at = now
        /\ \E i \in DOMAIN store :
              /\ store[i].user_id = "u1" /\ ~store[i].is_active
              /\ store[i].recommendation_type = "health_optimization"

====
